---- MODULE Spec2Model ----
(***************************************************************************)
(* A model of kirei: the GitHub OAuth loopback authorization flow          *)
(* (cli/src/commands.rs github_auth, core/src/unified/github_oauth.rs),    *)
(* the per-provider token resolution (cli/src/commands.rs resolve_*_token) *)
(* the provider identity (core/src/unified/mod.rs ProviderId), the         *)
(* provider adapters (providers/*/src/lib.rs and core/src/unified/*.rs)    *)
(* and the ls and new commands that use them (cli/src/commands.rs).        *)
(*                                                                         *)
(* Text is modelled as a sequence of characters (one-character strings);   *)
(* a request URL as a sequence of lexical tokens.  An Option<T> is a       *)
(* sequence of length 0 (None) or 1 (Some).                                *)
(***************************************************************************)
EXTENDS Integers, Sequences, FiniteSets, TLC

\* ------------------------------------------------------------------ bounds

\* inbound HTTP requests the listener accepts during one OAuth attempt
MaxRequests == 2
\* changes made to the environment and to the stored tokens between resolutions
MaxChanges == 2
\* characters in a repository scope text
MaxRepoLen == 4
\* entries in a JSON array a provider answers with
MaxEntities == 2

\* ------------------------------------------------------------------ options

None == <<>>

Some(x) == <<x>>

IsSome(o) == o # <<>>

Unwrap(o) == o[1]

\* ------------------------------------------------------------------ URLs

\* the characters an authorization code is made of, decoded
CodeChars == {"a", " ", "+"}

\* the ways a client may write one character in a query string
\* (application/x-www-form-urlencoded)
EncodingsOf(c) ==
    CASE c = "a" -> {"a", "%61"}
      [] c = " " -> {"+", "%20"}
      [] c = "+" -> {"%2B"}

\* every token a query-string value may hold
ValueTokens == UNION {EncodingsOf(c) : c \in CodeChars}

\* values of the state parameter: the one generated for the attempt, and another
StateValues == {"s", "x"}

Paths == {"/callback", "/favicon.ico"}

\* the codes a client may mean to send: empty, one character, two characters
CodeValues == { <<>>, <<"a">>, <<" ">>, <<"+">>, <<"+", "a">> }

\* a second code parameter following the first in the same query string
DecoyCodes == {<<"a">>}

Pair(k, v) == [k |-> k, v |-> v]

\* the (key, value) pairs of the query strings a client may send
QueryPairs ==
    {<<>>}
    \cup { <<Pair("code", c)>> : c \in CodeValues }
    \cup { <<Pair("state", <<s>>)>> : s \in StateValues }
    \cup { <<Pair("code", c), Pair("state", <<s>>)>> : c \in CodeValues, s \in StateValues }
    \cup { <<Pair("state", <<s>>), Pair("code", c)>> : c \in CodeValues, s \in StateValues }
    \cup { <<Pair("code", c), Pair("code", d)>> : c \in CodeValues, d \in DecoyCodes }

\* what a client means to send: a path, and with hasQuery the (key, value) pairs
Origins ==
    { [path |-> p, hasQuery |-> FALSE, pairs |-> <<>>] : p \in Paths }
    \cup { [path |-> p, hasQuery |-> TRUE, pairs |-> ps] : p \in Paths, ps \in QueryPairs }

\* the encodings of a decoded value
EncodedValues(k, v) ==
    IF k = "state" THEN {v}
    ELSE { e \in [1..Len(v) -> ValueTokens] : \A i \in 1..Len(v) : e[i] \in EncodingsOf(v[i]) }

RECURSIVE EncodedQueries(_)
\* the token sequences that write the pairs ps as k=v&k=v...
EncodedQueries(ps) ==
    IF ps = <<>> THEN {<<>>}
    ELSE LET first == { <<ps[1].k, "=">> \o e : e \in EncodedValues(ps[1].k, ps[1].v) }
         IN  IF Len(ps) = 1 THEN first
             ELSE { f \o <<"&">> \o r : f \in first, r \in EncodedQueries(Tail(ps)) }

\* the request lines a client may send for an origin
UrlsOf(o) ==
    IF ~o.hasQuery THEN {<<o.path>>}
    ELSE { <<o.path, "?">> \o q : q \in EncodedQueries(o.pairs) }

\* every request the environment may send: what was meant, and the URL on the wire
SentRequests == UNION { { [origin |-> o, url |-> u] : u \in UrlsOf(o) } : o \in Origins }

\* the code a client meant to send with an origin, if any: its first code pair
RECURSIVE FirstCodeOf(_)
FirstCodeOf(ps) ==
    IF ps = <<>> THEN None
    ELSE IF ps[1].k = "code" THEN Some(ps[1].v)
    ELSE FirstCodeOf(Tail(ps))

\* an origin is a code-bearing callback: /callback with a code parameter
CodeBearing(o) == o.path = "/callback" /\ o.hasQuery /\ IsSome(FirstCodeOf(o.pairs))

\* decoding of one token of a query string: percent-decoding, '+' read as a space
DecodeToken(t) ==
    CASE t = "+" -> " "
      [] t = "%61" -> "a"
      [] t = "%20" -> " "
      [] t = "%2B" -> "+"
      [] OTHER -> t

Decode(ts) == [i \in 1..Len(ts) |-> DecodeToken(ts[i])]

\* index of the first occurrence of token t in ts, 0 when absent
RECURSIVE IndexOf(_, _, _)
IndexOf(ts, t, i) ==
    IF i > Len(ts) THEN 0
    ELSE IF ts[i] = t THEN i
    ELSE IndexOf(ts, t, i + 1)

\* the (name, value) pairs of a query string: split on '&', empty pieces
\* skipped, each piece split on its first '=', both sides decoded
RECURSIVE query_pairs(_)
query_pairs(q) ==
    IF q = <<>> THEN <<>>
    ELSE LET amp == IndexOf(q, "&", 1)
             piece == IF amp = 0 THEN q ELSE SubSeq(q, 1, amp - 1)
             rest == IF amp = 0 THEN <<>> ELSE SubSeq(q, amp + 1, Len(q))
             eq == IndexOf(piece, "=", 1)
             name == IF eq = 0 THEN piece ELSE SubSeq(piece, 1, eq - 1)
             value == IF eq = 0 THEN <<>> ELSE SubSeq(piece, eq + 1, Len(piece))
         IN  IF piece = <<>> THEN query_pairs(rest)
             ELSE << <<Decode(name), Decode(value)>> >> \o query_pairs(rest)

\* find(|(k, _)| k == "code") over the pairs
RECURSIVE find_code(_)
find_code(ps) ==
    IF ps = <<>> THEN None
    ELSE IF ps[1][1] = <<"code">> THEN Some(ps[1][2])
    ELSE find_code(Tail(ps))

\* the last pair named code instead of the first
RECURSIVE find_last_code(_)
find_last_code(ps) ==
    IF ps = <<>> THEN None
    ELSE IF ps[Len(ps)][1] = <<"code">> THEN Some(ps[Len(ps)][2])
    ELSE find_last_code(SubSeq(ps, 1, Len(ps) - 1))

\* the query part of a request URL: the tokens after the first '?'
QueryOf(url) ==
    LET q == IndexOf(url, "?", 1)
    IN  IF q = 0 THEN <<>> ELSE SubSeq(url, q + 1, Len(url))

extract_code_from_url_last(url) == find_last_code(query_pairs(QueryOf(url)))

extract_code_from_url(url) == find_code(query_pairs(QueryOf(url)))

starts_with_any_path(url) == Len(url) >= 2 /\ url[2] = "?"

\* url.starts_with("/callback?")
starts_with_callback(url) == Len(url) >= 2 /\ url[1] = "/callback" /\ url[2] = "?"

\* ------------------------------------------------------------------ the token endpoint

\* a JSON value: a string, a number or null
JStr(x) == [t |-> "string", v |-> x]

JNum(x) == [t |-> "number", n |-> x]

JNull == [t |-> "null", v |-> ""]

\* the JSON objects the token endpoint may answer with, as functions from keys
JsonBodies ==
    { <<>>,
      [k \in {"error"} |-> JStr("bad_verification_code")],
      [k \in {"access_token"} |-> JStr("gho_A")],
      [k \in {"access_token"} |-> JStr("gho_B")],
      [k \in {"access_token"} |-> JNum(1)],
      [k \in {"access_token"} |-> JNull],
      [k \in {"access_token", "token_type"} |->
          IF k = "access_token" THEN JStr("gho_A") ELSE JStr("bearer")] }

\* what comes back from the POST: no response at all, a body that is not JSON,
\* or a JSON object
Responses ==
    { [kind |-> "transport_error", json |-> <<>>], [kind |-> "not_json", json |-> <<>>] }
    \cup { [kind |-> "json", json |-> j] : j \in JsonBodies }

\* json["access_token"].as_str()
access_token_as_str(json) ==
    IF "access_token" \in DOMAIN json /\ json["access_token"].t = "string"
    THEN Some(json["access_token"].v)
    ELSE None

\* a Result: Ok(v) or Err(e)
Ok(v) == [ok |-> TRUE, val |-> <<v>>, err |-> <<>>]

Err(e) == [ok |-> FALSE, val |-> <<>>, err |-> <<e>>]

\* GitHubOAuth::exchange_code_for_token: the result for a response
GitHubOAuth_exchange_code_for_token(resp) ==
    IF resp.kind # "json" THEN Err("http error")
    ELSE IF IsSome(access_token_as_str(resp.json))
         THEN Ok(Unwrap(access_token_as_str(resp.json)))
         ELSE Err("No access token in response")

\* kirei_provider_github::exchange_code_for_token, the one github_auth calls
exchange_code_for_token(resp) ==
    IF resp.kind # "json" THEN Err("http error")
    ELSE IF IsSome(access_token_as_str(resp.json))
         THEN Ok(Unwrap(access_token_as_str(resp.json)))
         ELSE Err("missing credentials")

\* ------------------------------------------------------------------ channels

\* Receiver::recv_timeout on a channel holding n messages: a queued message is
\* returned at once; with none and the sender gone it is disconnected; with
\* none and the deadline passed it times out; else the caller stays blocked
recv_timeout(n, senderAlive, deadlinePassed) ==
    IF n > 0 THEN "Ok"
    ELSE IF ~senderAlive THEN "Disconnected"
    ELSE IF deadlinePassed THEN "Timeout"
    ELSE "Block"

\* Receiver::recv on a channel holding the messages q
recv(q, senderAlive) ==
    IF q # <<>> THEN "Ok"
    ELSE IF ~senderAlive THEN "Disconnected"
    ELSE "Block"

wait_for_callback_ignoring_timeout(r) == TRUE

\* wait_for_callback: Ok(_) => true, Err(_) => false
wait_for_callback(r) == r = "Ok"

\* ------------------------------------------------------------------ state

VARIABLES
    pc,          \* github_auth: where the caller is
    err,         \* github_auth: the error it returned with, "" when none
    args,        \* GitHubAuthArgs: value and secret
    config,      \* github_auth: the configuration in memory
    disk,        \* the configuration file
    portState,   \* the loopback port: unassigned, free, other, listener, closed
    shown,       \* the authorization URL was printed
    lpc,         \* listener thread: off, incoming, body, dead
    lstep,       \* listener thread: the statement of the loop body it is at
    lreq,        \* listener thread: the URL of the request being handled
    codeChan,    \* the code channel: the codes queued
    closeChan,   \* the completion channel: how many signals are queued
    codeRx,      \* the code receiver is alive
    closeRx,     \* the completion receiver is alive
    code,        \* github_auth: the code it read
    token,       \* github_auth: the token the exchange returned
    response,    \* the token endpoint's answer
    \* history
    disk0,       \* the configuration file before the attempt
    acc,         \* per request accepted: whether it was a code-bearing callback
    meant,       \* the code the sender of the first code-bearing callback meant
    sig,         \* completion signals sent by the listener
    sends,       \* code_tx.send calls made by the listener
    enq,         \* codes ever put on the code channel
    posts,       \* POSTs to the token endpoint
    posted,      \* the code the POST carried
    waitSaw,     \* requests accepted when the wait returned, -1 before
    responded,   \* responses written by the listener
    reads        \* codes the caller read from the code channel

oauthVars ==
    <<pc, err, args, config, disk, portState, shown, lpc, lstep, lreq, codeChan,
      closeChan, codeRx, closeRx, code, token, response, disk0, acc, meant,
      sig, sends, enq, posts, posted, waitSaw, responded, reads>>

VARIABLES
    env,         \* the process environment: variable name -> value, if set
    tokens,      \* the tokens stored in the configuration file, per provider
    changes,     \* how many times the environment or the stored tokens changed
    lastCall,    \* the latest token resolution: provider and result
    prevCall,    \* the resolution before it
    fresh        \* nothing changed since the latest resolution

tokenVars == <<env, tokens, changes, lastCall, prevCall, fresh>>

VARIABLES
    ptext,       \* the text given to ProviderId::from_str
    presult,     \* what from_str returned for it, if it ran
    pfrom        \* the ProviderId whose display name the text was made from, if any

parseVars == <<ptext, presult, pfrom>>

VARIABLES
    rtext,       \* the scope text given to the repository parser
    rresult      \* what the parser returned for it, if it ran, and which parser

repoVars == <<rtext, rresult>>

VARIABLES
    call         \* the latest adapter operation: its inputs, requests and result

adapterVars == <<call>>

VARIABLES
    scopes,            \* the default scopes stored in the configuration file, per provider
    api_key,           \* the Trello API key stored in the configuration file
    default_provider,  \* the default provider stored in the configuration file
    cmd                \* the latest ls or new command: its inputs and what it did

cliVars == <<scopes, api_key, default_provider, cmd>>

vars == <<oauthVars, tokenVars, parseVars, repoVars, adapterVars, cliVars>>

\* what the OAuth flow leaves alone
notOAuth == <<tokenVars, parseVars, repoVars, adapterVars, cliVars>>

\* what token resolution and the stored tokens' changes leave alone
notToken == <<oauthVars, parseVars, repoVars, adapterVars, cliVars>>

\* what provider parsing leaves alone
notParse == <<oauthVars, tokenVars, repoVars, adapterVars, cliVars>>

\* what repository parsing leaves alone
notRepo == <<oauthVars, tokenVars, parseVars, adapterVars, cliVars>>

\* what an adapter operation leaves alone
notAdapter == <<oauthVars, tokenVars, parseVars, repoVars, cliVars>>

\* how an attempt starts: the arguments of
\* kirei github auth --method oauth [<client id> --secret <secret>]
\* and the stored configuration of the GitHub provider
Starts ==
    { [args |-> [value |-> Some("given"), secret |-> Some("given")],
       disk |-> [token |-> Some("gho_old"), client_id |-> None, client_secret |-> None]],
      [args |-> [value |-> None, secret |-> None],
       disk |-> [token |-> None, client_id |-> Some("stored"), client_secret |-> Some("stored")]],
      [args |-> [value |-> None, secret |-> None],
       disk |-> [token |-> Some("gho_old"), client_id |-> None, client_secret |-> None]] }

\* the OAuth variables when github_auth is entered
OAuthStart ==
    /\ pc = "start"
    /\ err = ""
    /\ \E st \in Starts : args = st.args /\ disk = st.disk
    /\ config = disk
    /\ disk0 = disk
    /\ portState = "unassigned"
    /\ shown = FALSE
    /\ lpc = "off"
    /\ lstep = 0
    /\ lreq = <<>>
    /\ codeChan = <<>>
    /\ closeChan = 0
    /\ codeRx = FALSE
    /\ closeRx = FALSE
    /\ code = None
    /\ token = None
    /\ response = None
    /\ acc = <<>>
    /\ meant = None
    /\ sig = 0
    /\ sends = 0
    /\ enq = 0
    /\ posts = 0
    /\ posted = None
    /\ waitSaw = -1
    /\ responded = 0
    /\ reads = 0

\* the sender halves live in the listener thread's closure
SendersAlive == lpc \in {"incoming", "body"}

\* return Err(msg): github_auth returns, and its receivers are dropped
Fail(msg) ==
    /\ pc' = "failed"
    /\ err' = msg
    /\ codeRx' = FALSE
    /\ closeRx' = FALSE

\* ------------------------------------------------------------------ github_auth, method "oauth"

\* the client id and secret: the argument, else the stored one, else typed in
ChosenCredential(arg, stored) ==
    IF IsSome(arg) THEN Unwrap(arg)
    ELSE IF IsSome(stored) THEN Unwrap(stored)
    ELSE "typed"

\* the client id and secret are written to the file as soon as they are settled
AuthCredentialsSaving ==
    /\ pc = "start"
    /\ config' = [disk EXCEPT
                    !.client_id = Some(ChosenCredential(args.value, disk.client_id)),
                    !.client_secret = Some(ChosenCredential(args.secret, disk.client_secret))]
    /\ disk' = config'
    /\ pc' = "port"
    /\ UNCHANGED <<notOAuth, err, args, portState, shown, lpc, lstep, lreq, codeChan,
                   closeChan, codeRx, closeRx, code, token, response, disk0, acc, meant,
                   sig, sends, enq, posts, posted, waitSaw, responded, reads>>

\* load the configuration, settle the client id and secret, set both in memory
AuthCredentials ==
    /\ pc = "start"
    /\ config' = [disk EXCEPT
                    !.client_id = Some(ChosenCredential(args.value, disk.client_id)),
                    !.client_secret = Some(ChosenCredential(args.secret, disk.client_secret))]
    /\ pc' = "port"
    /\ UNCHANGED <<notOAuth, err, args, disk, portState, shown, lpc, lstep, lreq, codeChan,
                   closeChan, codeRx, closeRx, code, token, response, disk0, acc, meant,
                   sig, sends, enq, posts, posted, waitSaw, responded, reads>>

\* get_available_port: bind 127.0.0.1:0, read the port back; the probing
\* listener is dropped when the function returns, which frees the port
AuthGetPort ==
    /\ pc = "port"
    /\ \E bound \in BOOLEAN :
          IF bound
          THEN /\ portState' = "free"
               /\ pc' = "url"
               /\ UNCHANGED <<err, codeRx, closeRx>>
          ELSE /\ Fail("bind failed")
               /\ UNCHANGED portState
    /\ UNCHANGED <<notOAuth, args, config, disk, shown, lpc, lstep, lreq, codeChan, closeChan,
                   code, token, response, disk0, acc, meant, sig, sends, enq, posts, posted,
                   waitSaw, responded, reads>>

\* another process binds the port while nobody holds it
OtherProcessBinds ==
    /\ portState = "free"
    /\ portState' = "other"
    /\ UNCHANGED <<notOAuth, pc, err, args, config, disk, shown, lpc, lstep, lreq, codeChan,
                   closeChan, codeRx, closeRx, code, token, response, disk0, acc, meant,
                   sig, sends, enq, posts, posted, waitSaw, responded, reads>>

\* build the authorization URL and print it
AuthShowUrl ==
    /\ pc = "url"
    /\ shown' = TRUE
    /\ pc' = "server"
    /\ UNCHANGED <<notOAuth, err, args, config, disk, portState, lpc, lstep, lreq, codeChan,
                   closeChan, codeRx, closeRx, code, token, response, disk0, acc, meant,
                   sig, sends, enq, posts, posted, waitSaw, responded, reads>>

\* start_callback_server(port)?: bind the port, make both channels, spawn the
\* listener thread; a port that cannot be bound is an error
AuthStartServer ==
    /\ pc = "server"
    /\ IF portState = "free"
       THEN /\ portState' = "listener"
            /\ lpc' = "incoming"
            /\ codeRx' = TRUE
            /\ closeRx' = TRUE
            /\ pc' = "wait"
            /\ UNCHANGED err
       ELSE /\ Fail("Failed to start server")
            /\ UNCHANGED <<portState, lpc>>
    /\ UNCHANGED <<notOAuth, args, config, disk, shown, lstep, lreq, codeChan, closeChan, code,
                   token, response, disk0, acc, meant, sig, sends, enq, posts, posted, waitSaw,
                   responded, reads>>

\* if !wait_for_callback(close_rx, 300) { return Err("Authorization timed out") }
\* close_rx is moved into the call and dropped when it returns
AuthWait ==
    /\ pc = "wait"
    /\ \E deadlinePassed \in BOOLEAN :
          LET r == recv_timeout(closeChan, SendersAlive, deadlinePassed)
          IN  /\ r # "Block"
              /\ closeChan' = IF r = "Ok" THEN closeChan - 1 ELSE closeChan
              /\ waitSaw' = Len(acc)
              /\ IF wait_for_callback(r)
                 THEN /\ pc' = "recv"
                      /\ closeRx' = FALSE
                      /\ UNCHANGED <<err, codeRx>>
                 ELSE Fail("Authorization timed out")
    /\ UNCHANGED <<notOAuth, args, config, disk, portState, shown, lpc, lstep, lreq, codeChan,
                   code, token, response, disk0, acc, meant, sig, sends, enq, posts, posted,
                   responded, reads>>

\* let code = code_rx.recv().map_err(|_| "Failed to receive code")?
AuthRecvCode ==
    /\ pc = "recv"
    /\ LET r == recv(codeChan, SendersAlive)
       IN  /\ r # "Block"
           /\ IF r = "Ok"
              THEN /\ code' = Some(Head(codeChan))
                   /\ codeChan' = Tail(codeChan)
                   /\ reads' = reads + 1
                   /\ pc' = "exchange"
                   /\ UNCHANGED <<err, codeRx, closeRx>>
              ELSE /\ Fail("Failed to receive code")
                   /\ UNCHANGED <<code, codeChan, reads>>
    /\ UNCHANGED <<notOAuth, args, config, disk, portState, shown, lpc, lstep, lreq, closeChan,
                   token, response, disk0, acc, meant, sig, sends, enq, posts, posted, waitSaw,
                   responded>>

\* exchange_code_for_token(client_id, client_secret, &code): the POST goes out
AuthExchangeSend ==
    /\ pc = "exchange"
    /\ posts' = posts + 1
    /\ posted' = code
    /\ pc' = "posting"
    /\ UNCHANGED <<notOAuth, err, args, config, disk, portState, shown, lpc, lstep, lreq,
                   codeChan, closeChan, codeRx, closeRx, code, token, response,
                   disk0, acc, meant, sig, sends, enq, waitSaw, responded, reads>>

\* a failed exchange is tried again
AuthExchangeReceiveRetrying ==
    /\ pc = "posting"
    /\ \E resp \in Responses :
          LET r == exchange_code_for_token(resp)
          IN  /\ response' = Some(resp)
              /\ IF r.ok
                 THEN /\ token' = r.val
                      /\ pc' = "save"
                 ELSE /\ pc' = "exchange"
                      /\ UNCHANGED token
    /\ UNCHANGED <<notOAuth, err, codeRx, closeRx, args, config, disk, portState, shown, lpc,
                   lstep, lreq, codeChan, closeChan, code, disk0, acc, meant, sig, sends, enq,
                   posts, posted, waitSaw, responded, reads>>

\* the response to the POST arrives: .await? on exchange_code_for_token
AuthExchangeReceive ==
    /\ pc = "posting"
    /\ \E resp \in Responses :
          LET r == exchange_code_for_token(resp)
          IN  /\ response' = Some(resp)
              /\ IF r.ok
                 THEN /\ token' = r.val
                      /\ pc' = "save"
                      /\ UNCHANGED <<err, codeRx, closeRx>>
                 ELSE /\ Fail(Unwrap(r.err))
                      /\ UNCHANGED token
    /\ UNCHANGED <<notOAuth, args, config, disk, portState, shown, lpc, lstep, lreq, codeChan,
                   closeChan, code, disk0, acc, meant, sig, sends, enq, posts, posted, waitSaw,
                   responded, reads>>

\* config.github.token = Some(token); store.save(&config)?; then Ok(())
AuthSave ==
    /\ pc = "save"
    /\ config' = [config EXCEPT !.token = token]
    /\ \E written \in BOOLEAN :
          IF written
          THEN /\ disk' = config'
               /\ pc' = "done"
               /\ codeRx' = FALSE
               /\ closeRx' = FALSE
               /\ UNCHANGED err
          ELSE /\ Fail("Failed to write config file")
               /\ UNCHANGED disk
    /\ UNCHANGED <<notOAuth, args, portState, shown, lpc, lstep, lreq, codeChan, closeChan,
                   code, token, response, disk0, acc, meant, sig, sends, enq, posts, posted,
                   waitSaw, responded, reads>>

\* ------------------------------------------------------------------ the listener thread

ListenerProgramSignalFirst == <<"signal", "extract", "respond">>

\* the statements of the loop body, in order: the code is extracted and sent,
\* the response is written, the completion signal is sent
ListenerProgram == <<"extract", "respond", "signal">>

\* the thread moves to its next statement, or back to incoming_requests()
ListenerAdvance ==
    IF lstep < Len(ListenerProgram)
    THEN lstep' = lstep + 1 /\ UNCHANGED lpc
    ELSE lstep' = 0 /\ lpc' = "incoming"

AtStatement(name) == lpc = "body" /\ ListenerProgram[lstep] = name

\* the state parameter a client meant to send with an origin, if any
RECURSIVE StateOf(_)
StateOf(ps) ==
    IF ps = <<>> THEN None
    ELSE IF ps[1].k = "state" THEN Some(ps[1].v)
    ELSE StateOf(Tail(ps))

\* the state generate_random_state made for this attempt and
\* get_authorization_url put into the URL
GeneratedState == <<"s">>

\* the requests of a sender that does not know the state of the attempt:
\* the state parameter is absent or differs
ForgedRequests ==
    { r \in SentRequests : StateOf(r.origin.pairs) # Some(GeneratedState) }

\* for request in server.incoming_requests(): the next request arrives, one
\* of those the environment sends
Accept(requests) ==
    /\ lpc = "incoming"
    /\ Len(acc) < MaxRequests
    /\ \E r \in requests :
          /\ lreq' = r.url
          /\ acc' = Append(acc, CodeBearing(r.origin))
          /\ meant' = IF CodeBearing(r.origin) /\ meant = None
                       THEN FirstCodeOf(r.origin.pairs) ELSE meant
    /\ lpc' = "body"
    /\ lstep' = 1
    /\ UNCHANGED <<notOAuth, pc, err, args, config, disk, portState, shown, codeChan, closeChan,
                   codeRx, closeRx, code, token, response, disk0, sig, sends, enq, posts,
                   posted, waitSaw, responded, reads>>

\* any client sends the request
ListenerAccept == Accept(SentRequests)

\* only clients that do not hold the state of the attempt send requests
ListenerAcceptForged == Accept(ForgedRequests)

\* incoming_requests() ends on an accept error: the loop and the thread end,
\* and both senders are dropped with the closure
ListenerAcceptError ==
    /\ lpc = "incoming"
    /\ lpc' = "dead"
    /\ portState' = "closed"
    /\ UNCHANGED <<notOAuth, pc, err, args, config, disk, shown, lstep, lreq, codeChan,
                   closeChan, codeRx, closeRx, code, token, response, disk0, acc, meant,
                   sig, sends, enq, posts, posted, waitSaw, responded, reads>>

\* if url.starts_with("/callback?") { if let Some(code) = extract_code_from_url(url)
\* { let _ = code_tx.send(code); } }: the send is lost when the receiver is gone
ListenerExtract ==
    /\ AtStatement("extract")
    /\ LET found == IF starts_with_callback(lreq)
                    THEN extract_code_from_url(lreq) ELSE None
       IN  /\ sends' = IF IsSome(found) THEN sends + 1 ELSE sends
           /\ IF IsSome(found) /\ codeRx
              THEN /\ codeChan' = Append(codeChan, Unwrap(found))
                   /\ enq' = enq + 1
              ELSE UNCHANGED <<codeChan, enq>>
    /\ lreq' = <<>>
    /\ ListenerAdvance
    /\ UNCHANGED <<notOAuth, pc, err, args, config, disk, portState, shown, closeChan, codeRx,
                   closeRx, code, token, response, disk0, acc, meant, sig, posts, posted,
                   waitSaw, responded, reads>>

\* let _ = request.respond(response): the fixed HTML page
ListenerRespond ==
    /\ AtStatement("respond")
    /\ responded' = responded + 1
    /\ ListenerAdvance
    /\ UNCHANGED <<notOAuth, pc, err, args, config, disk, portState, shown, lreq, codeChan,
                   closeChan, codeRx, closeRx, code, token, response, disk0, acc, meant,
                   sig, sends, enq, posts, posted, waitSaw, reads>>

\* let _ = close_tx.send(()): lost when the receiver is gone
ListenerSignal ==
    /\ AtStatement("signal")
    /\ closeChan' = IF closeRx THEN closeChan + 1 ELSE closeChan
    /\ sig' = sig + 1
    /\ ListenerAdvance
    /\ UNCHANGED <<notOAuth, pc, err, args, config, disk, portState, shown, lreq, codeChan,
                   codeRx, closeRx, code, token, response, disk0, acc, meant, sends, enq, posts,
                   posted, waitSaw, responded, reads>>

\* ------------------------------------------------------------------ provider identity

ProviderIds == {"Github", "Linear", "Trello", "Jira"}

\* a text as its characters
Chars(str) ==
    CASE str = "github" -> <<"g", "i", "t", "h", "u", "b">>
      [] str = "linear" -> <<"l", "i", "n", "e", "a", "r">>
      [] str = "trello" -> <<"t", "r", "e", "l", "l", "o">>
      [] str = "jira" -> <<"j", "i", "r", "a">>
      [] str = "GitHub" -> <<"G", "i", "t", "H", "u", "b">>
      [] str = "Linear" -> <<"L", "i", "n", "e", "a", "r">>
      [] str = "Trello" -> <<"T", "r", "e", "l", "l", "o">>
      [] str = "Jira" -> <<"J", "i", "r", "a">>

\* ProviderId::env_var
env_var(id) ==
    CASE id = "Github" -> "KIREI_GITHUB_TOKEN"
      [] id = "Linear" -> "KIREI_LINEAR_TOKEN"
      [] id = "Trello" -> "KIREI_TRELLO_TOKEN"
      [] id = "Jira" -> "KIREI_JIRA_TOKEN"

\* ProviderId::display_name
display_name(id) ==
    CASE id = "Github" -> "GitHub"
      [] id = "Linear" -> "Linear"
      [] id = "Trello" -> "Trello"
      [] id = "Jira" -> "Jira"

LowerLetters ==
    <<"a", "b", "c", "d", "e", "f", "g", "h", "i", "j", "k", "l", "m",
      "n", "o", "p", "q", "r", "s", "t", "u", "v", "w", "x", "y", "z">>

UpperLetters ==
    <<"A", "B", "C", "D", "E", "F", "G", "H", "I", "J", "K", "L", "M",
      "N", "O", "P", "Q", "R", "S", "T", "U", "V", "W", "X", "Y", "Z">>

\* char::to_lowercase on the characters of the model
LowerChar(c) ==
    IF \E i \in 1..Len(UpperLetters) : UpperLetters[i] = c
    THEN LowerLetters[CHOOSE i \in 1..Len(UpperLetters) : UpperLetters[i] = c]
    ELSE c

\* str::to_lowercase
to_lowercase(s) == [i \in 1..Len(s) |-> LowerChar(s[i])]

\* the error of from_str: format!("unknown provider '{}'", s)
UnknownProvider(s) == [msg |-> "unknown provider", text |-> s]

from_str_exact(s) ==
    CASE s = Chars("github") -> Ok("Github")
      [] s = Chars("linear") -> Ok("Linear")
      [] s = Chars("trello") -> Ok("Trello")
      [] s = Chars("jira") -> Ok("Jira")
      [] OTHER -> Err(UnknownProvider(s))

\* <ProviderId as FromStr>::from_str
from_str(s) ==
    LET l == to_lowercase(s)
    IN  CASE l = Chars("github") -> Ok("Github")
          [] l = Chars("linear") -> Ok("Linear")
          [] l = Chars("trello") -> Ok("Trello")
          [] l = Chars("jira") -> Ok("Jira")
          [] OTHER -> Err(UnknownProvider(s))

\* ------------------------------------------------------------------ token resolution

EnvVars == {env_var(id) : id \in ProviderIds}

\* str::trim on a text of spaces and other characters: the index of the first
\* and of the last character that is not white space
RECURSIVE trim(_)
trim(s) ==
    IF s = <<>> THEN <<>>
    ELSE IF Head(s) = " " THEN trim(Tail(s))
    ELSE IF s[Len(s)] = " " THEN trim(SubSeq(s, 1, Len(s) - 1))
    ELSE s

\* the error of resolve_<provider>_token: "<Name> token not configured. Run: kirei <name> auth"
NotConfigured(name, command) ==
    [msg |-> "token not configured", names |-> name, run |-> command]

resolve_github_token_untrimmed(e, cfg) ==
    IF IsSome(e["KIREI_GITHUB_TOKEN"]) /\ Unwrap(e["KIREI_GITHUB_TOKEN"]) # <<>>
    THEN Ok(Unwrap(e["KIREI_GITHUB_TOKEN"]))
    ELSE IF IsSome(cfg["Github"]) THEN Ok(Unwrap(cfg["Github"]))
    ELSE Err(NotConfigured("GitHub", "kirei github auth"))

\* resolve_github_token(config), reading the environment e
resolve_github_token(e, cfg) ==
    IF IsSome(e["KIREI_GITHUB_TOKEN"]) /\ trim(Unwrap(e["KIREI_GITHUB_TOKEN"])) # <<>>
    THEN Ok(Unwrap(e["KIREI_GITHUB_TOKEN"]))
    ELSE IF IsSome(cfg["Github"]) THEN Ok(Unwrap(cfg["Github"]))
    ELSE Err(NotConfigured("GitHub", "kirei github auth"))

\* resolve_linear_token(config), reading the environment e
resolve_linear_token(e, cfg) ==
    IF IsSome(e["KIREI_LINEAR_TOKEN"]) /\ trim(Unwrap(e["KIREI_LINEAR_TOKEN"])) # <<>>
    THEN Ok(Unwrap(e["KIREI_LINEAR_TOKEN"]))
    ELSE IF IsSome(cfg["Linear"]) THEN Ok(Unwrap(cfg["Linear"]))
    ELSE Err(NotConfigured("Linear", "kirei linear auth"))

\* resolve_trello_token(config), reading the environment e
resolve_trello_token(e, cfg) ==
    IF IsSome(e["KIREI_TRELLO_TOKEN"]) /\ trim(Unwrap(e["KIREI_TRELLO_TOKEN"])) # <<>>
    THEN Ok(Unwrap(e["KIREI_TRELLO_TOKEN"]))
    ELSE IF IsSome(cfg["Trello"]) THEN Ok(Unwrap(cfg["Trello"]))
    ELSE Err(NotConfigured("Trello", "kirei trello auth"))

\* resolve_jira_token(config), reading the environment e
resolve_jira_token(e, cfg) ==
    IF IsSome(e["KIREI_JIRA_TOKEN"]) /\ trim(Unwrap(e["KIREI_JIRA_TOKEN"])) # <<>>
    THEN Ok(Unwrap(e["KIREI_JIRA_TOKEN"]))
    ELSE IF IsSome(cfg["Jira"]) THEN Ok(Unwrap(cfg["Jira"]))
    ELSE Err(NotConfigured("Jira", "kirei jira auth"))

\* a resolver that keeps the token it found for the provider last time
ResolveTokenCached(id) ==
    IF IsSome(lastCall) /\ Unwrap(lastCall).provider = id /\ Unwrap(lastCall).result.ok
    THEN Unwrap(lastCall).result
    ELSE CASE id = "Github" -> resolve_github_token(env, tokens)
           [] id = "Linear" -> resolve_linear_token(env, tokens)
           [] id = "Trello" -> resolve_trello_token(env, tokens)
           [] id = "Jira" -> resolve_jira_token(env, tokens)

\* the resolver a command calls for a provider: the configuration is loaded
\* from the file and the environment read at the call
ResolveToken(id) ==
    CASE id = "Github" -> resolve_github_token(env, tokens)
      [] id = "Linear" -> resolve_linear_token(env, tokens)
      [] id = "Trello" -> resolve_trello_token(env, tokens)
      [] id = "Jira" -> resolve_jira_token(env, tokens)

\* the values an environment variable is given
EnvValues == { <<>>, <<" ">>, <<"e">>, <<" ", "e">>, <<"e", " ">> }

\* the tokens a configuration file holds
StoredValues == { <<"s">>, <<" ">> }

TokenStart ==
    /\ env = [v \in EnvVars |-> None]
    /\ tokens = [id \in ProviderIds |-> None]
    /\ changes = 0
    /\ lastCall = None
    /\ prevCall = None
    /\ fresh = FALSE

\* export VAR=value / unset VAR, between two runs of the program
SetEnv ==
    /\ cmd = None
    /\ changes < MaxChanges
    /\ \E v \in EnvVars, x \in {None} \cup {Some(e) : e \in EnvValues} :
          /\ env[v] # x
          /\ env' = [env EXCEPT ![v] = x]
    /\ changes' = changes + 1
    /\ fresh' = FALSE
    /\ UNCHANGED <<tokens, lastCall, prevCall>>
    /\ UNCHANGED notToken

\* kirei <provider> auth: a token is stored in the configuration file
StoreToken ==
    /\ cmd = None
    /\ changes < MaxChanges
    /\ \E id \in ProviderIds, t \in StoredValues :
          /\ tokens[id] # Some(t)
          /\ tokens' = [tokens EXCEPT ![id] = Some(t)]
    /\ changes' = changes + 1
    /\ fresh' = FALSE
    /\ UNCHANGED <<env, lastCall, prevCall>>
    /\ UNCHANGED notToken

\* a command resolves the token of a provider
Resolve ==
    /\ \E id \in ProviderIds :
          lastCall' = Some([provider |-> id, result |-> ResolveToken(id)])
    /\ prevCall' = lastCall
    /\ fresh' = TRUE
    /\ UNCHANGED <<env, tokens, changes>>
    /\ UNCHANGED notToken

\* ------------------------------------------------------------------ provider parsing

\* the spellings of a word in lower and upper case letters
RECURSIVE CaseVariants(_)
CaseVariants(w) ==
    IF w = <<>> THEN {<<>>}
    ELSE { <<c>> \o r :
             c \in {w[1]} \cup
                   {UpperLetters[i] : i \in {j \in 1..Len(LowerLetters) : LowerLetters[j] = w[1]}},
             r \in CaseVariants(Tail(w)) }

ProviderNames == {"github", "linear", "trello", "jira"}

\* texts that are no spelling of a provider: a name cut short, padded or extended
NearMisses ==
    UNION { { SubSeq(Chars(n), 1, Len(Chars(n)) - 1),
              Chars(n) \o <<" ">>,
              <<" ">> \o Chars(n),
              Chars(n) \o <<"s">>,
              to_lowercase(Chars(n)) \o <<"-">> } : n \in ProviderNames \cup {"GitHub", "Jira"} }
    \cup { <<>>, <<"g">>, <<"g", "i", "t", "l", "a", "b">> }

ParseInputs == UNION { CaseVariants(Chars(n)) : n \in ProviderNames } \cup NearMisses

ParseStart ==
    /\ ptext = <<>>
    /\ presult = None
    /\ pfrom = None

\* some text is given to from_str
Parse ==
    /\ \E s \in ParseInputs :
          /\ ptext' = s
          /\ presult' = Some(from_str(s))
    /\ pfrom' = None
    /\ UNCHANGED notParse

\* the lower-cased display name of a ProviderId is given to from_str
ParseDisplayName ==
    /\ \E id \in ProviderIds :
          /\ pfrom' = Some(id)
          /\ ptext' = to_lowercase(Chars(display_name(id)))
          /\ presult' = Some(from_str(to_lowercase(Chars(display_name(id)))))
    /\ UNCHANGED notParse

\* ------------------------------------------------------------------ GitHub repository scope

\* an adapter error: its variant and the text it displays or carries
E(kind, detail) == [kind |-> kind, detail |-> detail]

\* all texts over the characters S of length at most n
TextsUpTo(S, n) == UNION { [1..k -> S] : k \in 0..n }

\* index of the last occurrence of token t in ts at or before i, 0 when absent
RECURSIVE LastIndexOf(_, _, _)
LastIndexOf(ts, t, i) ==
    IF i = 0 THEN 0
    ELSE IF ts[i] = t THEN i
    ELSE LastIndexOf(ts, t, i - 1)

splitn2_last(s) ==
    LET i == LastIndexOf(s, "/", Len(s))
    IN  IF i = 0 THEN <<s>>
        ELSE <<SubSeq(s, 1, i - 1), SubSeq(s, i + 1, Len(s))>>

\* repo.splitn(2, '/'): the text split at its first '/', into at most two segments
splitn2(s) ==
    LET i == IndexOf(s, "/", 1)
    IN  IF i = 0 THEN <<s>>
        ELSE <<SubSeq(s, 1, i - 1), SubSeq(s, i + 1, Len(s))>>

\* segments.next().filter(|s| !s.is_empty()), for the n-th call of next()
next_nonempty(segments, n) ==
    IF n <= Len(segments) /\ segments[n] # <<>> THEN Some(segments[n]) ELSE None

\* GitHubRepository::from_string
from_string(repo) ==
    LET segments == splitn2(repo)
        owner == next_nonempty(segments, 1)
        name == next_nonempty(segments, 2)
    IN  IF owner = None THEN Err(E("OwnerMissing", "repository owner missing"))
        ELSE IF name = None THEN Err(E("RepoNameMissing", "repository name missing"))
        ELSE Ok([owner |-> Unwrap(owner), name |-> Unwrap(name)])

\* GitHubClient::resolve_repo of the provider crate
resolve_repo(default_repo, override_repo) ==
    LET repo == IF IsSome(override_repo) THEN override_repo ELSE default_repo
    IN  IF repo = None THEN Err(E("RepositoryRequired", "repository is required"))
        ELSE from_string(Unwrap(repo))

\* GitHubClient::resolve_repo of core::unified::github
unified_resolve_repo(default_repo, override_repo) ==
    LET chosen == IF IsSome(override_repo) THEN override_repo ELSE default_repo
    IN  IF chosen = None THEN Err(E("Configuration", "repository is required"))
        ELSE LET segments == splitn2(Unwrap(chosen))
                 owner == next_nonempty(segments, 1)
                 repo == next_nonempty(segments, 2)
             IN  IF owner = None THEN Err(E("Configuration", "repository owner missing"))
                 ELSE IF repo = None
                      THEN Err(E("Configuration", "repository name missing"))
                      ELSE Ok([owner |-> Unwrap(owner), name |-> Unwrap(repo)])

RepoChars == {"o", "r", "/"}

OctoRepo == <<"o", "c", "t", "o", "/", "r", "e", "p", "o">>

\* the scope texts given to the parsers
RepoInputs == TextsUpTo(RepoChars, MaxRepoLen) \cup {OctoRepo}

RepoStart ==
    /\ rtext = <<>>
    /\ rresult = None

\* GitHubRepository::from_string is applied to a scope text
FromString ==
    /\ \E t \in RepoInputs :
          /\ rtext' = t
          /\ rresult' = Some([via |-> "from_string", result |-> from_string(t)])
    /\ UNCHANGED notRepo

\* the unified adapter resolves a per-call scope text
UnifiedResolveRepo ==
    /\ \E t \in RepoInputs :
          /\ rtext' = t
          /\ rresult' = Some([via |-> "resolve_repo",
                              result |-> unified_resolve_repo(None, Some(t))])
    /\ UNCHANGED notRepo

\* ------------------------------------------------------------------ JSON and HTTP

\* serde_json::Value: objects and arrays besides JStr, JNum and JNull
JObj(f) == [t |-> "object", o |-> f]

JArr(s) == [t |-> "array", a |-> s]

\* an object given by one, two or three (key, value) pairs
Obj1(k1, v1) == JObj([k \in {k1} |-> v1])

Obj2(k1, v1, k2, v2) == JObj([k \in {k1, k2} |-> IF k = k1 THEN v1 ELSE v2])

Obj3(k1, v1, k2, v2, k3, v3) ==
    JObj([k \in {k1, k2, k3} |-> IF k = k1 THEN v1 ELSE IF k = k2 THEN v2 ELSE v3])

\* Value::get(key) on an Option<&Value>: None unless an object holding the key
get(o, key) ==
    IF IsSome(o) /\ Unwrap(o).t = "object" /\ key \in DOMAIN Unwrap(o).o
    THEN Some(Unwrap(o).o[key])
    ELSE None

\* .and_then(Value::as_str)
as_str(o) == IF IsSome(o) /\ Unwrap(o).t = "string" THEN Some(Unwrap(o).v) ELSE None

\* .and_then(Value::as_i64)
as_i64(o) == IF IsSome(o) /\ Unwrap(o).t = "number" THEN Some(Unwrap(o).n) ELSE None

\* .and_then(Value::as_array)
as_array(o) == IF IsSome(o) /\ Unwrap(o).t = "array" THEN Some(Unwrap(o).a) ELSE None

\* Option::unwrap_or
unwrap_or(o, d) == IF IsSome(o) THEN Unwrap(o) ELSE d

\* the elements of a sequence, mapped
Map(f, Op(_)) == [i \in 1..Len(f) |-> Op(f[i])]

\* what comes back from a request: no response at all, a body that is not
\* JSON, or a JSON body under an HTTP status
TransportError == [kind |-> "transport_error", status |-> 0, json |-> JNull]

NotJson == [kind |-> "not_json", status |-> 200, json |-> JNull]

Resp(status, j) == [kind |-> "json", status |-> status, json |-> j]

\* the error of `.send().await?` and of `response.json().await?`
HttpError == E("Http", "reqwest error")

\* response.json::<Value>() succeeded
IsJson(resp) == resp.kind = "json"

\* response.json::<Vec<Value>>() succeeded
IsJsonArray(resp) == resp.kind = "json" /\ resp.json.t = "array"

\* a request an adapter issued
Request(method, endpoint, scope, arg) ==
    [method |-> method, endpoint |-> endpoint, scope |-> scope, arg |-> arg]

\* what an adapter operation did: the requests it issued and what it returned
Out(reqs, res) == [reqs |-> reqs, res |-> res]

\* an adapter as constructed: its token and its configured default scope
Client(tok, dflt) == [token |-> tok, default |-> dflt]

ScopeOfDefaultFirst(client, override) ==
    IF IsSome(client.default) THEN client.default ELSE override

\* Option::or_else of the per-call scope and the configured default
ScopeOf(client, override) == IF IsSome(override) THEN override ELSE client.default

\* ------------------------------------------------------------------ GitHub adapters

\* GitHubIssue::from_json
GitHubIssue_from_json(value) ==
    LET number == unwrap_or(as_i64(get(Some(value), "number")), 0)
        id == IF IsSome(as_i64(get(Some(value), "id")))
              THEN ToString(Unwrap(as_i64(get(Some(value), "id"))))
              ELSE ToString(number)
    IN  [id |-> id,
         number |-> number,
         title |-> unwrap_or(as_str(get(Some(value), "title")), "untitled"),
         body |-> as_str(get(Some(value), "body")),
         state |-> unwrap_or(as_str(get(Some(value), "state")), "unknown"),
         html_url |-> as_str(get(Some(value), "html_url"))]

\* .filter(|issue| issue.get("pull_request").is_none())
not_pull_request(issue) == get(Some(issue), "pull_request") = None

\* GitHubClient::list_issues of the provider crate (state: None)
GitHubClient_list_issues(client, repo, net) ==
    LET r == resolve_repo(client.default, repo)
        reqs == <<Request("GET", "github issues", r.val, "state=open&per_page=50")>>
    IN  IF ~r.ok THEN Out(<<>>, r)
        ELSE IF ~IsJsonArray(net.listing) THEN Out(reqs, Err(HttpError))
        ELSE Out(reqs, Ok(Map(SelectSeq(net.listing.json.a, not_pull_request),
                              GitHubIssue_from_json)))

\* GitHubClient::create_issue of the provider crate
GitHubClient_create_issue(client, repo, title, net) ==
    LET r == resolve_repo(client.default, repo)
        reqs == <<Request("POST", "github issues", r.val, title)>>
    IN  IF ~r.ok THEN Out(<<>>, r)
        ELSE IF ~IsJson(net.created) THEN Out(reqs, Err(HttpError))
        ELSE Out(reqs, Ok(GitHubIssue_from_json(net.created.json)))

\* GitHubClient::map_issue of core::unified::github
map_issue(value) ==
    LET number == IF IsSome(as_i64(get(Some(value), "number")))
                  THEN ToString(Unwrap(as_i64(get(Some(value), "number"))))
                  ELSE unwrap_or(as_str(get(Some(value), "id")), "")
    IN  [id |-> number,
         title |-> unwrap_or(as_str(get(Some(value), "title")), "untitled"),
         state |-> unwrap_or(as_str(get(Some(value), "state")), "unknown"),
         url |-> as_str(get(Some(value), "html_url")),
         provider |-> "Github",
         raw_payload |-> value]

\* <GitHubClient as ProviderClient>::list of core::unified::github
unified_GitHubClient_list(client, repo, net) ==
    LET r == unified_resolve_repo(client.default, repo)
        reqs == <<Request("GET", "github issues", r.val, "state=open&per_page=20")>>
    IN  IF ~r.ok THEN Out(<<>>, r)
        ELSE IF ~IsJsonArray(net.listing) THEN Out(reqs, Err(HttpError))
        ELSE Out(reqs, Ok(Map(net.listing.json.a, map_issue)))

\* <GitHubClient as ProviderClient>::create of core::unified::github
unified_GitHubClient_create(client, repo, title, net) ==
    LET r == unified_resolve_repo(client.default, repo)
        reqs == <<Request("POST", "github issues", r.val, title)>>
    IN  IF ~r.ok THEN Out(<<>>, r)
        ELSE IF ~IsJson(net.created) THEN Out(reqs, Err(HttpError))
        ELSE Out(reqs, Ok(map_issue(net.created.json)))

\* the JSON objects api.github.com returns for an issue or a pull request
GitHubEntities ==
    { Obj3("id", JNum(9001), "number", JNum(7), "title", JStr("first")),
      Obj3("id", JNum(9002), "number", JNum(8), "pull_request", JObj(<<>>)),
      Obj2("number", JNum(9), "state", JStr("open")),
      Obj1("id", JStr("node")) }

\* what the issues endpoint answers a GET with
GitHubListings ==
    { TransportError, NotJson, Resp(401, Obj1("message", JStr("Bad credentials"))) }
    \cup { Resp(200, JArr(a)) : a \in UNION { [1..k -> GitHubEntities] : k \in 0..MaxEntities } }

\* what the issues endpoint answers a POST with
GitHubCreations ==
    { TransportError, NotJson, Resp(422, Obj1("message", JStr("Validation Failed"))) }
    \cup { Resp(201, e) : e \in GitHubEntities }

\* the repository scopes a client is configured with and a call supplies
RepoScopes == { None, Some(<<"o", "/", "r">>), Some(<<"o">>) }

RepoOverrides == { None, Some(<<"x", "/", "y">>) }

\* the latest adapter operation, as the properties read it
Call(adapter, op, client, scope, net, out) ==
    [adapter |-> adapter, op |-> op, client |-> client, scope |-> scope,
     net |-> net, out |-> out]

\* the caller has taken the result of the operation; the next one may start
AdapterReturn ==
    /\ call # None
    /\ call' = None
    /\ UNCHANGED notAdapter

GitHubListIssues ==
    /\ call = None
    /\ \E d \in RepoScopes, sc \in RepoOverrides, l \in GitHubListings :
          call' = Some(Call("github", "list", Client("tok", d), sc, [listing |-> l],
                            GitHubClient_list_issues(Client("tok", d), sc, [listing |-> l])))
    /\ UNCHANGED notAdapter

GitHubCreateIssue ==
    /\ call = None
    /\ \E d \in RepoScopes, sc \in RepoOverrides, c \in GitHubCreations :
          call' = Some(Call("github", "create", Client("tok", d), sc, [created |-> c],
                            GitHubClient_create_issue(Client("tok", d), sc, "title",
                                                      [created |-> c])))
    /\ UNCHANGED notAdapter

UnifiedGitHubList ==
    /\ call = None
    /\ \E d \in RepoScopes, sc \in RepoOverrides, l \in GitHubListings :
          call' = Some(Call("unified github", "list", Client("tok", d), sc, [listing |-> l],
                            unified_GitHubClient_list(Client("tok", d), sc, [listing |-> l])))
    /\ UNCHANGED notAdapter

UnifiedGitHubCreate ==
    /\ call = None
    /\ \E d \in RepoScopes, sc \in RepoOverrides, c \in GitHubCreations :
          call' = Some(Call("unified github", "create", Client("tok", d), sc,
                            [created |-> c],
                            unified_GitHubClient_create(Client("tok", d), sc, "title",
                                                        [created |-> c])))
    /\ UNCHANGED notAdapter

\* ------------------------------------------------------------------ Linear adapters

\* LinearIssue::from_json
LinearIssue_from_json(value) ==
    [id |-> unwrap_or(as_str(get(Some(value), "id")), ""),
     title |-> unwrap_or(as_str(get(Some(value), "title")), "untitled"),
     description |-> as_str(get(Some(value), "description")),
     state |-> unwrap_or(as_str(get(get(Some(value), "state"), "name")), "unknown"),
     url |-> as_str(get(Some(value), "url"))]

\* body.get("data").and_then(|d| d.get("issues")).and_then(|i| i.get("nodes"))
\*     .and_then(Value::as_array)
issues_nodes(body) == as_array(get(get(get(Some(body), "data"), "issues"), "nodes"))

\* body.get("data").and_then(|d| d.get("issueCreate")).and_then(|c| c.get("issue"))
created_issue(body) == get(get(get(Some(body), "data"), "issueCreate"), "issue")

\* LinearClient::list_issues of the provider crate
LinearClient_list_issues(client, workspace, net) ==
    LET reqs == <<Request("POST", "linear graphql issues", ScopeOf(client, workspace), "")>>
    IN  IF ~IsJson(net.listing) THEN Out(reqs, Err(HttpError))
        ELSE IF issues_nodes(net.listing.json) = None
             THEN Out(reqs, Err(E("Configuration", "Failed to parse response")))
             ELSE Out(reqs, Ok(Map(Unwrap(issues_nodes(net.listing.json)),
                                   LinearIssue_from_json)))

\* LinearClient::create_issue of the provider crate
LinearClient_create_issue(client, workspace, title, net) ==
    LET reqs == <<Request("POST", "linear graphql issueCreate",
                          ScopeOf(client, workspace), title)>>
    IN  IF ~IsJson(net.created) THEN Out(reqs, Err(HttpError))
        ELSE IF created_issue(net.created.json) = None
             THEN Out(reqs, Err(E("Configuration", "Failed to create issue")))
             ELSE Out(reqs, Ok(LinearIssue_from_json(Unwrap(created_issue(net.created.json)))))

\* LinearClient::map_node of core::unified::linear
map_node(value) ==
    [id |-> unwrap_or(as_str(get(Some(value), "id")), ""),
     title |-> unwrap_or(as_str(get(Some(value), "title")), "untitled"),
     state |-> unwrap_or(as_str(get(get(Some(value), "state"), "name")), "unknown"),
     url |-> as_str(get(Some(value), "url")),
     provider |-> "Linear",
     raw_payload |-> value]

\* LinearClient::extract_nodes of core::unified::linear; the error carries
\* response.to_string(), the parsed body serialized again
extract_nodes(body) ==
    IF issues_nodes(body) = None
    THEN Err(E("UnexpectedResponse", body))
    ELSE Ok(Unwrap(issues_nodes(body)))

\* <LinearClient as ProviderClient>::list of core::unified::linear
unified_LinearClient_list(client, workspace, net) ==
    LET reqs == <<Request("POST", "linear graphql issues", ScopeOf(client, workspace), "")>>
    IN  IF ~IsJson(net.listing) THEN Out(reqs, Err(HttpError))
        ELSE IF ~extract_nodes(net.listing.json).ok
             THEN Out(reqs, extract_nodes(net.listing.json))
             ELSE Out(reqs, Ok(Map(Unwrap(extract_nodes(net.listing.json).val), map_node)))

\* <LinearClient as ProviderClient>::create of core::unified::linear
unified_LinearClient_create(client, workspace, title, net) ==
    LET reqs == <<Request("POST", "linear graphql issueCreate",
                          ScopeOf(client, workspace), title)>>
    IN  IF ~IsJson(net.created) THEN Out(reqs, Err(HttpError))
        ELSE IF created_issue(net.created.json) = None
             THEN Out(reqs, Err(E("UnexpectedResponse", net.created.json)))
             ELSE Out(reqs, Ok(map_node(Unwrap(created_issue(net.created.json)))))

\* the issue nodes api.linear.app returns
LinearEntities ==
    { Obj3("id", JStr("L1"), "title", JStr("first"), "state", Obj1("name", JStr("Todo"))),
      Obj2("id", JStr("L2"), "url", JStr("https://linear.app/L2")),
      JNull }

\* the body of a GraphQL answer holding the value x at data.<field>.<leaf>
GraphQL(field, leaf, x) == Obj1("data", Obj1(field, Obj1(leaf, x)))

\* GraphQL answers without the path the adapter reads
LinearFailures ==
    { Resp(200, Obj1("errors", JArr(<<Obj1("message", JStr("Authentication required"))>>))),
      Resp(401, Obj1("errors", JArr(<<Obj1("message", JStr("Authentication required"))>>))),
      Resp(200, Obj1("data", JNull)),
      Resp(200, JStr("maintenance")) }

\* what the GraphQL endpoint answers the issues query with
LinearListings ==
    { TransportError, NotJson } \cup LinearFailures
    \cup { Resp(200, GraphQL("issues", "nodes", JStr("none"))) }
    \cup { Resp(s, GraphQL("issues", "nodes", JArr(a))) :
              s \in {200, 500},
              a \in UNION { [1..k -> LinearEntities] : k \in 0..MaxEntities } }

\* what the GraphQL endpoint answers the issueCreate mutation with
LinearCreations ==
    { TransportError, NotJson } \cup LinearFailures
    \cup { Resp(200, GraphQL("issueCreate", "issue", e)) : e \in LinearEntities }
    \cup { Resp(200, GraphQL("issueCreate", "success", JStr("false"))) }

\* the workspaces, boards and projects a client is configured with or a call supplies
NamedScopes == { None, Some("s1"), Some("s2") }

LinearListIssues ==
    /\ call = None
    /\ \E d \in NamedScopes, sc \in NamedScopes, l \in LinearListings :
          call' = Some(Call("linear", "list", Client("tok", d), sc, [listing |-> l],
                            LinearClient_list_issues(Client("tok", d), sc, [listing |-> l])))
    /\ UNCHANGED notAdapter

LinearCreateIssue ==
    /\ call = None
    /\ \E d \in NamedScopes, sc \in NamedScopes, c \in LinearCreations :
          call' = Some(Call("linear", "create", Client("tok", d), sc, [created |-> c],
                            LinearClient_create_issue(Client("tok", d), sc, "title",
                                                      [created |-> c])))
    /\ UNCHANGED notAdapter

UnifiedLinearList ==
    /\ call = None
    /\ \E d \in NamedScopes, sc \in NamedScopes, l \in LinearListings :
          call' = Some(Call("unified linear", "list", Client("tok", d), sc, [listing |-> l],
                            unified_LinearClient_list(Client("tok", d), sc, [listing |-> l])))
    /\ UNCHANGED notAdapter

UnifiedLinearCreate ==
    /\ call = None
    /\ \E d \in NamedScopes, sc \in NamedScopes, c \in LinearCreations :
          call' = Some(Call("unified linear", "create", Client("tok", d), sc,
                            [created |-> c],
                            unified_LinearClient_create(Client("tok", d), sc, "title",
                                                        [created |-> c])))
    /\ UNCHANGED notAdapter

\* ------------------------------------------------------------------ Trello adapters

JBool(b) == [t |-> "bool", b |-> b]

\* .and_then(Value::as_bool)
as_bool(o) == IF IsSome(o) /\ Unwrap(o).t = "bool" THEN Some(Unwrap(o).b) ELSE None

\* an object given by a sequence of (key, value) pairs
ObjOf(pairs) ==
    JObj([k \in {pairs[i][1] : i \in 1..Len(pairs)} |->
             pairs[CHOOSE i \in 1..Len(pairs) : pairs[i][1] = k][2]])

\* TrelloCard::from_json
TrelloCard_from_json(value, list_name) ==
    [id |-> unwrap_or(as_str(get(Some(value), "id")), ""),
     name |-> unwrap_or(as_str(get(Some(value), "name")), "untitled"),
     description |-> IF as_str(get(Some(value), "desc")) = Some("")
                     THEN None
                     ELSE as_str(get(Some(value), "desc")),
     list_name |-> list_name,
     url |-> as_str(get(Some(value), "url"))]

\* TrelloClient::resolve_board
resolve_board(client, override_board) ==
    IF ScopeOf(client, override_board) = None
    THEN Err(E("BoardRequired", "board is required"))
    ELSE Ok(Unwrap(ScopeOf(client, override_board)))

\* serde: a JSON value deserializes as the provider crate's TrelloList
IsTrelloList(v) ==
    /\ IsSome(as_str(get(Some(v), "id")))
    /\ IsSome(as_str(get(Some(v), "name")))

\* response.json::<Vec<TrelloList>>() succeeded
IsTrelloLists(resp) ==
    /\ IsJsonArray(resp)
    /\ \A i \in 1..Len(resp.json.a) : IsTrelloList(resp.json.a[i])

\* TrelloClient::list_lists, called with Some(board_id)
list_lists(board_id, resp) ==
    LET reqs == <<Request("GET", "trello board lists", Some(board_id), "")>>
    IN  IF ~IsTrelloLists(resp) THEN Out(reqs, Err(HttpError))
        ELSE Out(reqs, Ok(Map(resp.json.a,
                              LAMBDA l : [id |-> Unwrap(as_str(get(Some(l), "id"))),
                                          name |-> Unwrap(as_str(get(Some(l), "name")))])))

\* Result::unwrap_or_default on a Result<Vec<_>, _>
unwrap_or_default(res) == IF res.ok THEN Unwrap(res.val) ELSE <<>>

\* list_map.get(id) of the HashMap collected from the lists: the name of the
\* last list with that id
list_map_get(lists, id) ==
    IF \A i \in 1..Len(lists) : lists[i].id # id THEN None
    ELSE Some(lists[CHOOSE i \in 1..Len(lists) :
                       lists[i].id = id /\ \A j \in (i + 1)..Len(lists) : lists[j].id # id].name)

\* the list name list_cards attaches to a card
list_name_of(card, lists) ==
    IF as_str(get(Some(card), "idList")) = None THEN "Unknown"
    ELSE unwrap_or(list_map_get(lists, Unwrap(as_str(get(Some(card), "idList")))), "Unknown")

\* TrelloClient::list_cards
TrelloClient_list_cards(client, board, net) ==
    LET b == resolve_board(client, board)
        cardsReq == <<Request("GET", "trello board cards", b.val, "")>>
        ll == list_lists(Unwrap(b.val), net.lists)
        lists == unwrap_or_default(ll.res)
    IN  IF ~b.ok THEN Out(<<>>, b)
        ELSE IF ~IsJsonArray(net.listing) THEN Out(cardsReq, Err(HttpError))
        ELSE Out(cardsReq \o ll.reqs,
                 Ok(Map(net.listing.json.a,
                        LAMBDA card : TrelloCard_from_json(card, list_name_of(card, lists)))))

TrelloClient_create_card_last_list(client, board, name, net) ==
    LET b == resolve_board(client, board)
        ll == list_lists(Unwrap(b.val), net.lists)
        lists == Unwrap(ll.res.val)
        post == <<Request("POST", "trello cards", Some(lists[Len(lists)].id), name)>>
    IN  IF ~b.ok THEN Out(<<>>, b)
        ELSE IF ~ll.res.ok THEN Out(ll.reqs, ll.res)
        ELSE IF lists = <<>>
             THEN Out(ll.reqs, Err(E("Configuration", "No lists found on board")))
        ELSE IF ~IsJson(net.created) THEN Out(ll.reqs \o post, Err(HttpError))
        ELSE Out(ll.reqs \o post, Ok(TrelloCard_from_json(net.created.json, "")))

\* TrelloClient::create_card
TrelloClient_create_card(client, board, name, net) ==
    LET b == resolve_board(client, board)
        ll == list_lists(Unwrap(b.val), net.lists)
        lists == Unwrap(ll.res.val)
        post == <<Request("POST", "trello cards", Some(lists[1].id), name)>>
    IN  IF ~b.ok THEN Out(<<>>, b)
        ELSE IF ~ll.res.ok THEN Out(ll.reqs, ll.res)
        ELSE IF lists = <<>>
             THEN Out(ll.reqs, Err(E("Configuration", "No lists found on board")))
        ELSE IF ~IsJson(net.created) THEN Out(ll.reqs \o post, Err(HttpError))
        ELSE Out(ll.reqs \o post, Ok(TrelloCard_from_json(net.created.json, "")))

\* res.status().is_success()
is_success(resp) == resp.status >= 200 /\ resp.status < 300

\* serde: a JSON value deserializes as core::unified::trello's TrelloList
IsUnifiedTrelloList(v) ==
    /\ IsSome(as_str(get(Some(v), "id")))
    /\ IsSome(as_str(get(Some(v), "name")))
    /\ IsSome(as_str(get(Some(v), "idBoard")))
    /\ IsSome(as_bool(get(Some(v), "closed")))

\* serde: a JSON value deserializes as core::unified::trello's TrelloCard
IsUnifiedTrelloCard(v) ==
    /\ \A k \in {"id", "name", "desc", "idList", "idBoard", "url"} :
          IsSome(as_str(get(Some(v), k)))
    /\ IsSome(as_array(get(Some(v), "labels")))

\* TrelloClient::get_lists of core::unified::trello
get_lists(board_id, resp) ==
    LET reqs == <<Request("GET", "trello board lists", Some(board_id), "")>>
    IN  IF resp.kind = "transport_error" THEN Out(reqs, Err(HttpError))
        ELSE IF ~is_success(resp)
             THEN Out(reqs, Err(E("ProviderError", "Failed to fetch lists")))
        ELSE IF ~(IsJsonArray(resp)
                  /\ \A i \in 1..Len(resp.json.a) : IsUnifiedTrelloList(resp.json.a[i]))
             THEN Out(reqs, Err(HttpError))
        ELSE Out(reqs, Ok(SelectSeq(resp.json.a,
                                    LAMBDA l : ~Unwrap(as_bool(get(Some(l), "closed"))))))

\* TrelloClient::create_card of core::unified::trello
unified_create_card(list_id, name, resp) ==
    LET reqs == <<Request("POST", "trello cards", Some(list_id), name)>>
    IN  IF resp.kind = "transport_error" THEN Out(reqs, Err(HttpError))
        ELSE IF ~is_success(resp)
             THEN Out(reqs, Err(E("ProviderError", "Failed to create card")))
        ELSE IF ~(IsJson(resp) /\ IsUnifiedTrelloCard(resp.json))
             THEN Out(reqs, Err(HttpError))
        ELSE Out(reqs, Ok(resp.json))

\* <TrelloClient as ProviderClient>::create_task of core::unified::trello
create_task(project_id, name, net) ==
    LET gl == get_lists(project_id, net.lists)
        lists == Unwrap(gl.res.val)
        cc == unified_create_card(Unwrap(as_str(get(Some(lists[1]), "id"))), name, net.created)
        card == Unwrap(cc.res.val)
    IN  IF ~gl.res.ok THEN gl
        ELSE IF lists = <<>>
             THEN Out(gl.reqs, Err(E("ProviderError", "No lists found in board")))
        ELSE IF ~cc.res.ok THEN Out(gl.reqs \o cc.reqs, cc.res)
        ELSE Out(gl.reqs \o cc.reqs,
                 Ok([id |-> Unwrap(as_str(get(Some(card), "id"))),
                     name |-> Unwrap(as_str(get(Some(card), "name"))),
                     provider |-> "Trello",
                     project_id |-> Some(project_id),
                     url |-> as_str(get(Some(card), "url")),
                     description |-> as_str(get(Some(card), "desc")),
                     status |-> "Active",
                     due_date |-> as_str(get(Some(card), "due")),
                     labels |-> Map(Unwrap(as_array(get(Some(card), "labels"))),
                                    LAMBDA l : unwrap_or(as_str(get(Some(l), "name")), "")),
                     archived |-> FALSE]))

\* <TrelloClient as ProviderClient>::create of core::unified::trello
unified_TrelloClient_create(project_id, name, net) ==
    IF project_id = None
    THEN Out(<<>>, Err(E("ProviderError", "Project ID required for task creation")))
    ELSE create_task(Unwrap(project_id), name, net)

\* the lists api.trello.com returns for a board
TrelloListEntities ==
    { ObjOf(<< <<"id", JStr("l1")>>, <<"name", JStr("Todo")>>,
               <<"idBoard", JStr("b")>>, <<"closed", JBool(FALSE)>> >>),
      ObjOf(<< <<"id", JStr("l2")>>, <<"name", JStr("Done")>>,
               <<"idBoard", JStr("b")>>, <<"closed", JBool(TRUE)>> >>),
      Obj2("id", JStr("l3"), "name", JStr("Later")) }

\* the cards api.trello.com returns
TrelloCardEntities ==
    { ObjOf(<< <<"id", JStr("c1")>>, <<"name", JStr("card")>>, <<"desc", JStr("")>>,
               <<"idList", JStr("l1")>>, <<"idBoard", JStr("b")>>,
               <<"url", JStr("https://trello.com/c/c1")>>, <<"labels", JArr(<<>>)>> >>),
      Obj3("id", JStr("c2"), "name", JStr("other"), "idList", JStr("l2")),
      Obj1("id", JStr("c3")) }

\* what the lists endpoint answers with
TrelloListsAnswers ==
    { TransportError, NotJson, Resp(401, JStr("invalid key")), Resp(401, JArr(<<>>)) }
    \cup { Resp(200, JArr(a)) :
              a \in UNION { [1..k -> TrelloListEntities] : k \in 0..MaxEntities } }

\* what the cards endpoint answers a GET with
TrelloListings ==
    { TransportError, NotJson, Resp(401, JStr("invalid key")) }
    \cup { Resp(200, JArr(a)) :
              a \in UNION { [1..k -> TrelloCardEntities] : k \in 0..MaxEntities } }

\* what the cards endpoint answers a POST with
TrelloCreations ==
    { TransportError, NotJson, Resp(400, Obj1("message", JStr("invalid value for idList"))) }
    \cup { Resp(200, c) : c \in TrelloCardEntities }

TrelloListCards ==
    /\ call = None
    /\ \E d \in NamedScopes, sc \in {None, Some("s2")},
          l \in TrelloListings, ls \in TrelloListsAnswers :
          call' = Some(Call("trello", "list", Client("tok", d), sc,
                            [listing |-> l, lists |-> ls],
                            TrelloClient_list_cards(Client("tok", d), sc,
                                                    [listing |-> l, lists |-> ls])))
    /\ UNCHANGED notAdapter

TrelloCreateCard ==
    /\ call = None
    /\ \E d \in NamedScopes, sc \in {None, Some("s2")},
          ls \in TrelloListsAnswers, c \in TrelloCreations :
          call' = Some(Call("trello", "create", Client("tok", d), sc,
                            [lists |-> ls, created |-> c],
                            TrelloClient_create_card(Client("tok", d), sc, "title",
                                                     [lists |-> ls, created |-> c])))
    /\ UNCHANGED notAdapter

UnifiedTrelloCreate ==
    /\ call = None
    /\ \E sc \in {None, Some("s2")}, ls \in TrelloListsAnswers, c \in TrelloCreations :
          call' = Some(Call("unified trello", "create", Client("tok", None), sc,
                            [lists |-> ls, created |-> c],
                            unified_TrelloClient_create(sc, "title",
                                                        [lists |-> ls, created |-> c])))
    /\ UNCHANGED notAdapter

\* ------------------------------------------------------------------ Jira adapters

\* s.replace("/rest/api/3/issue/", "/browse/") on the texts the model uses
browse_url(s) ==
    IF s = "https://jira/rest/api/3/issue/10001" THEN "https://jira/browse/10001"
    ELSE s

\* JiraIssue::from_json
JiraIssue_from_json(value) ==
    LET fields == get(Some(value), "fields")
    IN  [id |-> unwrap_or(as_str(get(Some(value), "id")), ""),
         key |-> unwrap_or(as_str(get(Some(value), "key")), ""),
         summary |-> unwrap_or(as_str(get(fields, "summary")), "untitled"),
         description |-> as_str(get(fields, "description")),
         status |-> unwrap_or(as_str(get(get(fields, "status"), "name")), "unknown"),
         url |-> IF IsSome(as_str(get(Some(value), "self")))
                 THEN Some(browse_url(Unwrap(as_str(get(Some(value), "self")))))
                 ELSE None]

\* JiraClient::resolve_project
resolve_project(client, override_project) ==
    IF ScopeOf(client, override_project) = None
    THEN Err(E("ProjectRequired", "project is required"))
    ELSE Ok(Unwrap(ScopeOf(client, override_project)))

\* JiraClient::list_issues
JiraClient_list_issues(client, project, net) ==
    LET p == resolve_project(client, project)
        reqs == <<Request("GET", "jira search", p.val, "status != Done")>>
        issues == as_array(get(Some(net.listing.json), "issues"))
    IN  IF ~p.ok THEN Out(<<>>, p)
        ELSE IF ~IsJson(net.listing) THEN Out(reqs, Err(HttpError))
        ELSE IF issues = None THEN Out(reqs, Ok(<<>>))
        ELSE Out(reqs, Ok(Map(Unwrap(issues), JiraIssue_from_json)))

\* JiraClient::create_issue
JiraClient_create_issue(client, project, summary, net) ==
    LET p == resolve_project(client, project)
        reqs == <<Request("POST", "jira issue", p.val, summary)>>
    IN  IF ~p.ok THEN Out(<<>>, p)
        ELSE IF ~IsJson(net.created) THEN Out(reqs, Err(HttpError))
        ELSE Out(reqs, Ok(JiraIssue_from_json(net.created.json)))

\* <JiraClient as ProviderClient>::list and ::create of core::unified::jira
unified_JiraClient(op) == Out(<<>>, Err(E("NotImplemented", "Jira")))

\* the issues a Jira server returns
JiraEntities ==
    { Obj3("id", JStr("10001"), "key", JStr("K-1"),
           "self", JStr("https://jira/rest/api/3/issue/10001")),
      Obj3("id", JStr("10002"), "key", JStr("K-2"),
           "fields", Obj2("summary", JStr("second"), "status", Obj1("name", JStr("To Do")))) }

\* what the search endpoint answers with
JiraListings ==
    { TransportError, NotJson,
      Resp(400, Obj1("errorMessages", JArr(<<JStr("The value 'K' does not exist")>>))),
      Resp(200, Obj1("issues", JNull)) }
    \cup { Resp(200, Obj1("issues", JArr(a))) :
              a \in UNION { [1..k -> JiraEntities] : k \in 0..MaxEntities } }

\* what the issue endpoint answers a POST with
JiraCreations ==
    { TransportError, NotJson,
      Resp(400, Obj1("errorMessages", JArr(<<JStr("project is required")>>))) }
    \cup { Resp(201, e) : e \in JiraEntities }

JiraListIssues ==
    /\ call = None
    /\ \E d \in NamedScopes, sc \in NamedScopes, l \in JiraListings :
          call' = Some(Call("jira", "list", Client("tok", d), sc, [listing |-> l],
                            JiraClient_list_issues(Client("tok", d), sc, [listing |-> l])))
    /\ UNCHANGED notAdapter

JiraCreateIssue ==
    /\ call = None
    /\ \E d \in NamedScopes, sc \in NamedScopes, c \in JiraCreations :
          call' = Some(Call("jira", "create", Client("tok", d), sc, [created |-> c],
                            JiraClient_create_issue(Client("tok", d), sc, "title",
                                                    [created |-> c])))
    /\ UNCHANGED notAdapter

UnifiedJira ==
    /\ call = None
    /\ \E op \in {"list", "create"}, sc \in NamedScopes :
          call' = Some(Call("unified jira", op, Client("", None), sc, <<>>,
                            unified_JiraClient(op)))
    /\ UNCHANGED notAdapter

\* ------------------------------------------------------------------ provider adapters

AdapterStart == call = None

\* ------------------------------------------------------------------ the ls and new commands

\* the rest of the program's state, as the commands leave it
notCli == <<oauthVars, parseVars, repoVars, adapterVars>>

\* what the providers answer while a command runs: every endpoint answers
\* with one entity, or no endpoint can be reached
Worlds == {"up", "down"}

Net(who, w) ==
    IF w = "down"
    THEN [listing |-> TransportError, lists |-> TransportError, created |-> TransportError]
    ELSE CASE who = "github" ->
                [listing |-> Resp(200, JArr(<<Obj2("number", JNum(9), "state", JStr("open"))>>)),
                 lists |-> NotJson,
                 created |-> Resp(201, Obj2("number", JNum(9), "state", JStr("open")))]
           [] who = "linear" ->
                [listing |-> Resp(200, GraphQL("issues", "nodes",
                                 JArr(<<Obj2("id", JStr("L2"), "url", JStr("https://linear.app/L2"))>>))),
                 lists |-> NotJson,
                 created |-> Resp(200, GraphQL("issueCreate", "issue",
                                 Obj2("id", JStr("L2"), "url", JStr("https://linear.app/L2"))))]
           [] who = "trello" ->
                [listing |-> Resp(200, JArr(<<Obj1("id", JStr("c3"))>>)),
                 lists |-> Resp(200, JArr(<<Obj2("id", JStr("l3"), "name", JStr("Later"))>>)),
                 created |-> Resp(200, Obj1("id", JStr("c3")))]
           [] who = "jira" ->
                [listing |-> Resp(200, Obj1("issues", JArr(<<Obj2("id", JStr("10001"),
                                                                  "key", JStr("K-1"))>>))),
                 lists |-> NotJson,
                 created |-> Resp(201, Obj2("id", JStr("10001"), "key", JStr("K-1")))]

\* a step of a command: a token resolution, the construction of a client, a
\* request the client issued
Ev(e, who, ok) == [e |-> e, who |-> who, ok |-> ok]

\* what one arm of the provider match did: its steps in order, the clients
\* it constructed and what it returned
Arm(events, clients, res) == [events |-> events, clients |-> clients, res |-> res]

\* `let token = resolve_<provider>_token(&config)?` returned the error
Unresolved(who, t) == Arm(<<Ev("resolve", who, FALSE)>>, <<>>, t)

\* the token was resolved, the client constructed, its operation awaited
\* with `?` and the result displayed
Awaited(who, client, out) ==
    Arm(<<Ev("resolve", who, TRUE), Ev("construct", who, TRUE)>>
            \o [i \in 1..Len(out.reqs) |-> Ev("request", who, TRUE)],
        <<[kind |-> who, client |-> client]>>,
        IF out.res.ok THEN Ok("()") ELSE out.res)

\* TrelloClient::new(token, api_key, default_board)
TrelloClient_new(tok, key, dflt) == [token |-> tok, default |-> dflt, api_key |-> key]

\* the "github" arm of ls_command
ls_github(w) ==
    LET t == resolve_github_token(env, tokens)
        client == Client(Unwrap(t.val), scopes["Github"])
    IN  IF ~t.ok THEN Unresolved("github", t)
        ELSE Awaited("github", client,
                     GitHubClient_list_issues(client, None, Net("github", w)))

\* the "linear" arm of ls_command
ls_linear(w) ==
    LET t == resolve_linear_token(env, tokens)
        client == Client(Unwrap(t.val), scopes["Linear"])
    IN  IF ~t.ok THEN Unresolved("linear", t)
        ELSE Awaited("linear", client,
                     LinearClient_list_issues(client, None, Net("linear", w)))

\* the "trello" arm of ls_command: `config.trello.api_key.clone().unwrap_or_default()`
ls_trello(w) ==
    LET t == resolve_trello_token(env, tokens)
        client == TrelloClient_new(Unwrap(t.val), unwrap_or(api_key, ""), scopes["Trello"])
    IN  IF ~t.ok THEN Unresolved("trello", t)
        ELSE Awaited("trello", client,
                     TrelloClient_list_cards(client, None, Net("trello", w)))

\* the "jira" arm of ls_command
ls_jira(w) ==
    LET t == resolve_jira_token(env, tokens)
        client == Client(Unwrap(t.val), scopes["Jira"])
    IN  IF ~t.ok THEN Unresolved("jira", t)
        ELSE Awaited("jira", client,
                     JiraClient_list_issues(client, None, Net("jira", w)))

\* the Trello block of the branch without a provider: the client is built
\* only when the token resolves and an API key is stored
ls_all_trello(w) ==
    LET t == resolve_trello_token(env, tokens)
        client == TrelloClient_new(Unwrap(t.val), Unwrap(api_key), scopes["Trello"])
    IN  IF ~t.ok THEN Unresolved("trello", t)
        ELSE IF api_key = None
             THEN Arm(<<Ev("resolve", "trello", TRUE)>>, <<>>, Err(E("anyhow", "no api key")))
        ELSE Awaited("trello", client,
                     TrelloClient_list_cards(client, None, Net("trello", w)))

ls_all_stopping(w) ==
    LET g == ls_github(w)
        l == ls_linear(w)
        t == ls_all_trello(w)
        j == ls_jira(w)
    IN  IF ~g.res.ok THEN g
        ELSE IF ~l.res.ok THEN Arm(g.events \o l.events, g.clients \o l.clients, l.res)
        ELSE IF ~t.res.ok
             THEN Arm(g.events \o l.events \o t.events,
                      g.clients \o l.clients \o t.clients, t.res)
        ELSE Arm(g.events \o l.events \o t.events \o j.events,
                 g.clients \o l.clients \o t.clients \o j.clients, j.res)

\* the branch of ls_command without a provider: every block is entered with
\* `if let Ok`, so no error leaves it
ls_all(w) ==
    LET g == ls_github(w)
        l == ls_linear(w)
        t == ls_all_trello(w)
        j == ls_jira(w)
    IN  Arm(g.events \o l.events \o t.events \o j.events,
            g.clients \o l.clients \o t.clients \o j.clients,
            Ok("()"))

\* anyhow!("Unknown provider: {}", provider)
UnknownProviderName(p) == Arm(<<>>, <<>>, Err(E("Unknown provider", p)))

ls_command_linear_as_github(provider, w) ==
    IF provider = None THEN ls_all(w)
    ELSE CASE Unwrap(provider) = "github" -> ls_github(w)
           [] Unwrap(provider) = "linear" -> ls_github(w)
           [] Unwrap(provider) = "trello" -> ls_trello(w)
           [] Unwrap(provider) = "jira" -> ls_jira(w)
           [] OTHER -> UnknownProviderName(Unwrap(provider))

\* ls_command: the match on the provider given on the command line
ls_command(provider, w) ==
    IF provider = None THEN ls_all(w)
    ELSE CASE Unwrap(provider) = "github" -> ls_github(w)
           [] Unwrap(provider) = "linear" -> ls_linear(w)
           [] Unwrap(provider) = "trello" -> ls_trello(w)
           [] Unwrap(provider) = "jira" -> ls_jira(w)
           [] OTHER -> UnknownProviderName(Unwrap(provider))

\* the "github" arm of new_command
new_github(title, w) ==
    LET t == resolve_github_token(env, tokens)
        client == Client(Unwrap(t.val), scopes["Github"])
    IN  IF ~t.ok THEN Unresolved("github", t)
        ELSE Awaited("github", client,
                     GitHubClient_create_issue(client, None, title, Net("github", w)))

\* the "linear" arm of new_command
new_linear(title, w) ==
    LET t == resolve_linear_token(env, tokens)
        client == Client(Unwrap(t.val), scopes["Linear"])
    IN  IF ~t.ok THEN Unresolved("linear", t)
        ELSE Awaited("linear", client,
                     LinearClient_create_issue(client, None, title, Net("linear", w)))

\* the "trello" arm of new_command
new_trello(title, w) ==
    LET t == resolve_trello_token(env, tokens)
        client == TrelloClient_new(Unwrap(t.val), unwrap_or(api_key, ""), scopes["Trello"])
    IN  IF ~t.ok THEN Unresolved("trello", t)
        ELSE Awaited("trello", client,
                     TrelloClient_create_card(client, None, title, Net("trello", w)))

\* the "jira" arm of new_command
new_jira(title, w) ==
    LET t == resolve_jira_token(env, tokens)
        client == Client(Unwrap(t.val), scopes["Jira"])
    IN  IF ~t.ok THEN Unresolved("jira", t)
        ELSE Awaited("jira", client,
                     JiraClient_create_issue(client, None, title, Net("jira", w)))

\* args.provider.unwrap_or_else(|| config.default_provider.clone())
provider_or_default(provider) == unwrap_or(provider, default_provider)

\* new_command: the match on the provider given, or on the stored default
new_command(provider, title, w) ==
    CASE provider_or_default(provider) = "github" -> new_github(title, w)
      [] provider_or_default(provider) = "linear" -> new_linear(title, w)
      [] provider_or_default(provider) = "trello" -> new_trello(title, w)
      [] provider_or_default(provider) = "jira" -> new_jira(title, w)
      [] OTHER -> UnknownProviderName(provider_or_default(provider))

\* the provider texts given with --provider, and stored as default provider
ProviderTexts == ProviderNames \cup {"GitHub", "gitlab"}

ProviderArgs == {None} \cup {Some(p) : p \in ProviderTexts}

\* the default scopes `repo set`, `workspace set`, `board set` and
\* `project set` store
ScopeValues(id) ==
    IF id = "Github" THEN {<<"o", "/", "r">>, <<"o">>} ELSE {"s1", "s2"}

\* a command as the properties read it: the operation, the --provider
\* argument given, the provider the command was run for and what it did
Cmd(op, given, asked, w, did) ==
    [op |-> op, given |-> given, asked |-> asked, world |-> w, did |-> did]

CliStart ==
    /\ scopes = [id \in ProviderIds |-> None]
    /\ api_key = None
    /\ default_provider = "github"
    /\ cmd = None

\* kirei ls [--provider p]
LsCommand ==
    /\ cmd = None
    /\ \E p \in ProviderArgs, w \in Worlds :
          cmd' = Some(Cmd("ls", p, p, w, ls_command(p, w)))
    /\ UNCHANGED <<scopes, api_key, default_provider>>
    /\ UNCHANGED tokenVars
    /\ UNCHANGED notCli

NewCommandSavingProvider ==
    /\ cmd = None
    /\ \E p \in ProviderArgs, w \in Worlds :
          /\ cmd' = Some(Cmd("new", p, Some(provider_or_default(p)), w,
                             new_command(p, "title", w)))
          /\ default_provider' = provider_or_default(p)
    /\ UNCHANGED <<scopes, api_key>>
    /\ UNCHANGED tokenVars
    /\ UNCHANGED notCli

\* kirei new <title> [--provider p]
NewCommand ==
    /\ cmd = None
    /\ \E p \in ProviderArgs, w \in Worlds :
          cmd' = Some(Cmd("new", p, Some(provider_or_default(p)), w,
                          new_command(p, "title", w)))
    /\ UNCHANGED <<scopes, api_key, default_provider>>
    /\ UNCHANGED tokenVars
    /\ UNCHANGED notCli

\* the command has returned; the next one may be run
CommandReturn ==
    /\ cmd # None
    /\ cmd' = None
    /\ UNCHANGED <<scopes, api_key, default_provider>>
    /\ UNCHANGED tokenVars
    /\ UNCHANGED notCli

\* kirei github repo set, linear workspace set, trello board set, jira project set
SetScope ==
    /\ cmd = None
    /\ changes < MaxChanges
    /\ \E id \in ProviderIds :
          \E x \in ScopeValues(id) :
              /\ scopes[id] # Some(x)
              /\ scopes' = [scopes EXCEPT ![id] = Some(x)]
    /\ changes' = changes + 1
    /\ UNCHANGED <<api_key, default_provider, cmd>>
    /\ UNCHANGED <<env, tokens, lastCall, prevCall, fresh>>
    /\ UNCHANGED notCli

\* kirei trello auth --api-key k --token t: the key and the token are stored
TrelloAuth ==
    /\ cmd = None
    /\ changes < MaxChanges
    /\ api_key = None
    /\ api_key' = Some("k")
    /\ \E t \in StoredValues : tokens' = [tokens EXCEPT !["Trello"] = Some(trim(t))]
    /\ changes' = changes + 1
    /\ fresh' = FALSE
    /\ UNCHANGED <<scopes, default_provider, cmd>>
    /\ UNCHANGED <<env, lastCall, prevCall>>
    /\ UNCHANGED notCli

\* the texts given to `config provider`
ConfigTexts == {"jira", "GitHub", "gitlab"}

ConfigProviderValidated ==
    /\ cmd = None
    /\ changes < MaxChanges
    /\ \E p \in ConfigTexts \cap ProviderNames :
          /\ default_provider # p
          /\ default_provider' = p
    /\ changes' = changes + 1
    /\ UNCHANGED <<scopes, api_key, cmd>>
    /\ UNCHANGED <<env, tokens, lastCall, prevCall, fresh>>
    /\ UNCHANGED notCli

\* kirei config provider <name>
ConfigProvider ==
    /\ cmd = None
    /\ changes < MaxChanges
    /\ \E p \in ConfigTexts :
          /\ default_provider # p
          /\ default_provider' = p
    /\ changes' = changes + 1
    /\ UNCHANGED <<scopes, api_key, cmd>>
    /\ UNCHANGED <<env, tokens, lastCall, prevCall, fresh>>
    /\ UNCHANGED notCli

\* ------------------------------------------------------------------ specifications

\* the OAuth variables while no attempt runs
OAuthIdle ==
    /\ OAuthStart
    /\ args = [value |-> None, secret |-> None]
    /\ disk.token = None

\* the variables of the other parts while they are idle
OthersIdle == TokenStart /\ ParseStart /\ RepoStart /\ AdapterStart /\ CliStart

InitOAuth == OAuthStart /\ OthersIdle

NextOAuth ==
    \/ AuthCredentials
    \/ AuthGetPort
    \/ OtherProcessBinds
    \/ AuthShowUrl
    \/ AuthStartServer
    \/ AuthWait
    \/ AuthRecvCode
    \/ AuthExchangeSend
    \/ AuthExchangeReceive
    \/ AuthSave
    \/ ListenerAccept
    \/ ListenerAcceptError
    \/ ListenerExtract
    \/ ListenerRespond
    \/ ListenerSignal

SpecOAuth == InitOAuth /\ [][NextOAuth]_vars

\* the attempt when every inbound request comes from a sender that does not
\* hold the state of the attempt
NextForged ==
    \/ AuthCredentials
    \/ AuthGetPort
    \/ OtherProcessBinds
    \/ AuthShowUrl
    \/ AuthStartServer
    \/ AuthWait
    \/ AuthRecvCode
    \/ AuthExchangeSend
    \/ AuthExchangeReceive
    \/ AuthSave
    \/ ListenerAcceptForged
    \/ ListenerAcceptError
    \/ ListenerExtract
    \/ ListenerRespond
    \/ ListenerSignal

SpecForged == InitOAuth /\ [][NextForged]_vars

InitToken == OAuthIdle /\ OthersIdle

NextToken ==
    \/ SetEnv
    \/ StoreToken
    \/ Resolve

SpecToken == InitToken /\ [][NextToken]_vars

InitParse == OAuthIdle /\ OthersIdle

NextParse ==
    \/ Parse
    \/ ParseDisplayName

SpecParse == InitParse /\ [][NextParse]_vars

InitRepo == OAuthIdle /\ OthersIdle

NextRepo ==
    \/ FromString
    \/ UnifiedResolveRepo

SpecRepo == InitRepo /\ [][NextRepo]_vars

InitAdapter == OAuthIdle /\ OthersIdle

NextAdapter ==
    \/ AdapterReturn
    \/ GitHubListIssues
    \/ GitHubCreateIssue
    \/ UnifiedGitHubList
    \/ UnifiedGitHubCreate
    \/ LinearListIssues
    \/ LinearCreateIssue
    \/ UnifiedLinearList
    \/ UnifiedLinearCreate
    \/ TrelloListCards
    \/ TrelloCreateCard
    \/ UnifiedTrelloCreate
    \/ JiraListIssues
    \/ JiraCreateIssue
    \/ UnifiedJira

SpecAdapter == InitAdapter /\ [][NextAdapter]_vars

InitCli == OAuthIdle /\ OthersIdle

NextCli ==
    \/ SetEnv
    \/ StoreToken
    \/ SetScope
    \/ TrelloAuth
    \/ ConfigProvider
    \/ LsCommand
    \/ NewCommand
    \/ CommandReturn

SpecCli == InitCli /\ [][NextCli]_vars

\* ------------------------------------------------------------------ properties of the OAuth flow

\* the states of the flow
FlowState(p) ==
    CASE p \in {"start", "port", "url", "server"} -> "Idle"
      [] p = "wait" -> "AwaitingRedirect"
      [] p \in {"recv", "exchange", "posting"} -> "CodeReceived"
      [] p \in {"save", "done"} -> "TokenExchanged"
      [] p = "failed" -> "Failed"

Rank(st) ==
    CASE st = "Idle" -> 0
      [] st = "AwaitingRedirect" -> 1
      [] st = "CodeReceived" -> 2
      [] st = "TokenExchanged" -> 3
      [] st = "Failed" -> 4

\* how many of the first n accepted requests were code-bearing callbacks
RECURSIVE CountBearing(_, _)
CountBearing(a, n) ==
    IF n = 0 THEN 0
    ELSE CountBearing(a, n - 1) + (IF n <= Len(a) /\ a[n] THEN 1 ELSE 0)

\* the wait returned true: the caller took a completion signal
WaitReturnedTrue == waitSaw >= 0 /\ ~(pc = "failed" /\ err = "Authorization timed out")

\* C1: when the wait ends before any request has reached the listener, the
\* flow has failed with "Authorization timed out", has read no code, has sent
\* no POST to the token endpoint, holds no token and has left the
\* configuration file as it was, also after a late callback was served.
C1_TimeoutEndsFlow ==
    waitSaw = 0 =>
        /\ pc = "failed"
        /\ err = "Authorization timed out"
        /\ code = None
        /\ reads = 0
        /\ posts = 0
        /\ token = None
        /\ disk = disk0

\* the wait timed out with no request, and then a callback with a code was served
C1_Witness ==
    /\ waitSaw = 0
    /\ pc = "failed"
    /\ lpc # "dead"
    /\ Len(acc) >= 1
    /\ acc[1]
    /\ sig >= 1

\* C2: when the first request the listener served carried no code and the
\* caller took its completion signal, the flow is before the code read or has
\* failed with "Failed to receive code", and no POST was sent.
C2_NoCodeFailsDistinctly ==
    (WaitReturnedTrue /\ Len(acc) >= 1 /\ ~acc[1]) =>
        /\ posts = 0
        /\ pc \in {"recv", "failed"}
        /\ (pc = "failed" => err = "Failed to receive code")

\* C3: each completion signal sent for a code-bearing request is preceded by
\* the send of its code, and a caller that took the signal of a code-bearing
\* callback finds a code on the code channel: its read does not block.
C3_CodeBeforeSignal ==
    /\ CountBearing(acc, sig) <= sends
    /\ (pc = "recv" /\ acc[1]) => (codeChan # <<>> /\ recv(codeChan, SendersAlive) = "Ok")

\* the caller took the signal of a code-bearing first callback and is about to read
C3_Witness == pc = "recv" /\ acc[1] /\ sig = 1 /\ waitSaw = 1

\* C4: the code channel carries at most one value over the whole attempt.
C4_AtMostOneCode == enq <= 1

\* C5: the code the caller reads and the code it posts to the token endpoint
\* are the decoded value of the code parameter of the first code-bearing
\* callback the listener accepted, as its sender meant it.
C5_CodeIsFirstCallbackCode ==
    /\ IsSome(code) => (IsSome(meant) /\ code = meant)
    /\ IsSome(posted) => (posted = code /\ posted = meant)

\* the code posted is that of a second request, after a first without a code,
\* and its wire form differs from its value
C5_Witness ==
    /\ posts = 1
    /\ acc = <<FALSE, TRUE>>
    /\ posted = Some(<<"+", "a">>)

\* C6 as stated: forward only, one POST and only after a code was read, Failed
\* entered only on timeout or on a failed exchange, Failed and TokenExchanged
\* terminal.
C6_Original ==
    [][ /\ Rank(FlowState(pc')) >= Rank(FlowState(pc))
        /\ posts' <= 1
        /\ (posts' > posts => (IsSome(code) /\ reads >= 1))
        /\ (pc' = "failed" /\ pc # "failed") =>
              \/ (pc = "wait" /\ err' = "Authorization timed out")
              \/ pc = "posting"
        /\ (pc \in {"failed", "done"} => (pc' = pc /\ disk' = disk))
      ]_vars

\* C6 amended: forward only, one POST and only after a code was read; Failed is
\* entered from Idle when the port probe or the listener start fails, from
\* AwaitingRedirect when the wait ends without a signal, from CodeReceived
\* when the code channel is closed without a code or the exchange fails, and
\* after the exchange when the configuration cannot be written; a failed or
\* finished attempt takes no further step and saves nothing.
C6_ForwardOnly ==
    [][ /\ Rank(FlowState(pc')) >= Rank(FlowState(pc))
        /\ posts' <= 1
        /\ (posts' > posts => (IsSome(code) /\ reads >= 1))
        /\ (pc' = "failed" /\ pc # "failed") =>
              \/ (pc = "port" /\ err' = "bind failed")
              \/ (pc = "server" /\ err' = "Failed to start server")
              \/ (pc = "wait" /\ err' = "Authorization timed out")
              \/ (pc = "recv" /\ err' = "Failed to receive code")
              \/ (pc = "posting" /\ err' \in {"http error", "missing credentials"})
              \/ (pc = "save" /\ err' = "Failed to write config file")
        /\ (pc \in {"failed", "done"} => (pc' = pc /\ disk' = disk /\ err' = err))
      ]_vars

\* an attempt that went through every state and saved its token
C6_Witness == pc = "done" /\ posts = 1 /\ reads = 1 /\ disk.token = token /\ IsSome(token)

\* C7: the exchange succeeds exactly when the response is a JSON object with a
\* string access_token; the token is then that string and is what is saved;
\* without the field the flow fails with "No access token in response" and
\* the configuration file is untouched.
C7_ExchangeContract ==
    IsSome(response) =>
        LET resp == Unwrap(response)
            field == access_token_as_str(resp.json)
        IN  IF resp.kind = "json" /\ IsSome(field)
            THEN /\ token = field
                 /\ pc \in {"save", "done", "failed"}
                 /\ (pc = "done" => disk.token = field)
            ELSE /\ pc = "failed"
                 /\ token = None
                 /\ disk = disk0
                 /\ (resp.kind = "json" => err = "No access token in response")

\* ------------------------------------------------------------------ properties of token resolution

\* a text has a character that is not white space
NonBlank(s) == \E i \in 1..Len(s) : s[i] # " "

\* the environment variable of the provider is set and not blank
EnvGiven(id) == IsSome(env[env_var(id)]) /\ NonBlank(Unwrap(env[env_var(id)]))

\* C8: a resolution returns the value of KIREI_<PROVIDER>_TOKEN when that is
\* set and not blank, also when a token is stored; else the stored token when
\* there is one; else it fails with an error naming the provider.
C8_ResolutionOrder ==
    (fresh /\ IsSome(lastCall)) =>
        LET c == Unwrap(lastCall)
            stored == tokens[c.provider]
        IN  /\ EnvGiven(c.provider) =>
                  c.result = Ok(Unwrap(env[env_var(c.provider)]))
            /\ (~EnvGiven(c.provider) /\ IsSome(stored)) =>
                  c.result = Ok(Unwrap(stored))
            /\ (~EnvGiven(c.provider) /\ ~IsSome(stored)) =>
                  /\ ~c.result.ok
                  /\ Unwrap(c.result.err).msg = "token not configured"
                  /\ Unwrap(c.result.err).names = display_name(c.provider)

\* the variable is set with white space around the value, a token is stored,
\* and the resolution returned the variable's value
C8_Witness ==
    /\ fresh
    /\ IsSome(lastCall)
    /\ IsSome(tokens[Unwrap(lastCall).provider])
    /\ env[env_var(Unwrap(lastCall).provider)] = Some(<<" ", "e">>)
    /\ Unwrap(lastCall).result = Ok(<<" ", "e">>)

\* the result the environment e and the stored tokens cfg determine for a provider
Determined(id, e, cfg) ==
    IF IsSome(e[env_var(id)]) /\ NonBlank(Unwrap(e[env_var(id)])) THEN e[env_var(id)]
    ELSE cfg[id]

\* C9: every resolution returns what the environment and the stored tokens
\* determine at the time of that call, whatever earlier calls returned.
C9_NoCaching ==
    [][ fresh' =>
           LET c == Unwrap(lastCall')
           IN  /\ c.result.val = Determined(c.provider, env, tokens)
               /\ c.result.ok = IsSome(Determined(c.provider, env, tokens))
      ]_vars

\* a call returned the stored token, the variable was exported after it, and
\* the next call for the same provider returned the variable's value
C9_Witness ==
    /\ fresh
    /\ IsSome(prevCall)
    /\ Unwrap(prevCall).provider = Unwrap(lastCall).provider
    /\ Unwrap(prevCall).result = Ok(<<"s">>)
    /\ Unwrap(lastCall).result = Ok(<<"e">>)

\* ------------------------------------------------------------------ properties of provider parsing

\* s spells the lower-case word w in some mix of lower and upper case
SameIgnoringCase(s, w) ==
    /\ Len(s) = Len(w)
    /\ \A i \in 1..Len(w) :
          \/ s[i] = w[i]
          \/ \E j \in 1..Len(LowerLetters) : LowerLetters[j] = w[i] /\ UpperLetters[j] = s[i]

IdOfName(n) ==
    CASE n = "github" -> "Github"
      [] n = "linear" -> "Linear"
      [] n = "trello" -> "Trello"
      [] n = "jira" -> "Jira"

FirstSlash(t) ==
    IF \A i \in 1..Len(t) : t[i] # "/" THEN 0
    ELSE CHOOSE i \in 1..Len(t) : t[i] = "/" /\ \A j \in 1..(i - 1) : t[j] # "/"

\* C11: GitHub scope parsing splits the text on its first '/': the owner is
\* the text before it and the name everything after it; an empty owner fails
\* with the owner-missing error, a present owner with a missing or empty name
\* (also a text without a slash) fails with the distinct name-missing error,
\* the empty text fails, and "octo/repo" yields owner "octo" and name "repo"
C11_ScopeParsing ==
    IsSome(rresult) =>
        LET r == Unwrap(rresult).result
            cut == FirstSlash(rtext)
            owner == IF cut = 0 THEN rtext ELSE SubSeq(rtext, 1, cut - 1)
            name == IF cut = 0 THEN <<>> ELSE SubSeq(rtext, cut + 1, Len(rtext))
        IN  /\ (owner = <<>>) =>
                (~r.ok /\ Unwrap(r.err).detail = "repository owner missing")
            /\ (owner # <<>> /\ name = <<>>) =>
                (~r.ok /\ Unwrap(r.err).detail = "repository name missing")
            /\ (owner # <<>> /\ name # <<>>) =>
                (r.ok /\ Unwrap(r.val) = [owner |-> owner, name |-> name])
            /\ (rtext = <<>>) => ~r.ok
            /\ (rtext = OctoRepo) =>
                r = Ok([owner |-> <<"o", "c", "t", "o">>, name |-> <<"r", "e", "p", "o">>])

\* a text with two slashes was parsed: the name keeps the second slash
C11_Witness ==
    /\ IsSome(rresult)
    /\ rtext = <<"o", "/", "/", "r">>
    /\ Unwrap(rresult).result.ok
    /\ Unwrap(Unwrap(rresult).result.val).name = <<"/", "r">>

\* the scope an operation has to use: the per-call scope when the call
\* supplies one, otherwise the default the adapter was constructed with
Used(c) == IF c.scope # None THEN c.scope ELSE c.client.default

\* the error an adapter reports when it has no scope at all
ScopeRequired(adapter) ==
    CASE adapter \in {"github", "unified github"} -> "repository is required"
      [] adapter = "trello" -> "board is required"
      [] adapter = "jira" -> "project is required"

\* a request carries the scope sc
CarriesScope(c, req, sc) ==
    IF c.adapter \in {"github", "unified github"}
    THEN req.scope # None
         /\ Unwrap(req.scope).owner \o <<"/">> \o Unwrap(req.scope).name = Unwrap(sc)
    ELSE req.scope = sc

\* C12: list and create on GitHub, Trello and Jira use the per-call scope
\* when the call supplies one and the configured default otherwise; with
\* neither, the operation fails with the repository / board / project
\* required error and issues no request; Linear passes an absent scope
\* through without failing on it
C12_ScopeFallback ==
    call # None =>
        LET c == Unwrap(call)
        IN  /\ (c.adapter \in {"github", "unified github", "trello", "jira"}) =>
                  /\ (Used(c) = None) =>
                        /\ ~c.out.res.ok
                        /\ Unwrap(c.out.res.err).detail = ScopeRequired(c.adapter)
                        /\ c.out.reqs = <<>>
                  /\ (Used(c) # None /\ c.out.reqs # <<>>) =>
                        CarriesScope(c, c.out.reqs[1], Used(c))
                  /\ (Used(c) # None /\ c.adapter \in {"trello", "jira"}) =>
                        c.out.reqs # <<>>
            /\ (c.adapter \in {"linear", "unified linear"}) =>
                  /\ Len(c.out.reqs) = 1
                  /\ c.out.reqs[1].scope = Used(c)
                  /\ (Used(c) = None /\ ~c.out.res.ok) =>
                        Unwrap(c.out.res.err).kind \in {"Http", "Configuration", "UnexpectedResponse"}
                  /\ (c.net \in {[listing |-> Resp(200, GraphQL("issues", "nodes", JArr(<<>>)))]})
                        => c.out.res.ok

\* a Trello operation was given a per-call board although the client has a
\* default, and its request went to the per-call board
C12_Witness ==
    /\ call # None
    /\ Unwrap(call).adapter = "trello"
    /\ Unwrap(call).client.default = Some("s1")
    /\ Unwrap(call).scope = Some("s2")
    /\ Unwrap(call).out.reqs # <<>>
    /\ Unwrap(call).out.reqs[1].scope = Some("s2")

\* the positions of the card-creation requests among the requests issued
Posts(reqs) == { i \in 1..Len(reqs) : reqs[i].method = "POST" }

NonPullRequests(a) == SelectSeq(a, LAMBDA e : "pull_request" \notin DOMAIN e.o)

\* C14: for a GitHub issues array, list returns exactly one record per entry
\* without a pull_request key, in the array's order, each with id equal to
\* the stringified number of its entry, and none for a pull-request entry
C14_GitHubList ==
    (call # None /\ Unwrap(call).adapter \in {"github", "unified github"}
     /\ Unwrap(call).op = "list" /\ Unwrap(call).out.res.ok) =>
        LET c == Unwrap(call)
            kept == NonPullRequests(c.net.listing.json.a)
            records == Unwrap(c.out.res.val)
        IN  /\ Len(records) = Len(kept)
            /\ \A i \in 1..Len(kept) :
                  (i <= Len(records) /\ "number" \in DOMAIN kept[i].o) =>
                      records[i].id = ToString(kept[i].o["number"].n)

\* a JSON body holds the array at data.issues.nodes
HasNodes(body) ==
    /\ body.t = "object" /\ "data" \in DOMAIN body.o
    /\ body.o["data"].t = "object" /\ "issues" \in DOMAIN body.o["data"].o
    /\ body.o["data"].o["issues"].t = "object"
    /\ "nodes" \in DOMAIN body.o["data"].o["issues"].o
    /\ body.o["data"].o["issues"].o["nodes"].t = "array"

\* C15: Linear list fails with UnexpectedResponse carrying the response body
\* whenever the body lacks the data.issues.nodes array, whatever the HTTP
\* status, and returns issues only when that path is present
C15_LinearList ==
    (call # None /\ Unwrap(call).adapter \in {"linear", "unified linear"}
     /\ Unwrap(call).op = "list" /\ Unwrap(call).net.listing.kind = "json") =>
        LET c == Unwrap(call)
            body == c.net.listing.json
        IN  /\ ~HasNodes(body) =>
                  /\ ~c.out.res.ok
                  /\ Unwrap(c.out.res.err).kind = "UnexpectedResponse"
                  /\ Unwrap(c.out.res.err).detail = body
            /\ c.out.res.ok => HasNodes(body)

\* the entity a create operation was answered with
CreatedEntity(c) ==
    IF c.adapter \in {"linear", "unified linear"}
    THEN c.net.created.json.o["data"].o["issueCreate"].o["issue"]
    ELSE c.net.created.json

\* what list returns when the provider lists exactly the entity e
ListOf(c, e) ==
    CASE c.adapter = "github" ->
           GitHubClient_list_issues(c.client, c.scope, [listing |-> Resp(200, JArr(<<e>>))])
      [] c.adapter = "unified github" ->
           unified_GitHubClient_list(c.client, c.scope, [listing |-> Resp(200, JArr(<<e>>))])
      [] c.adapter = "linear" ->
           LinearClient_list_issues(c.client, c.scope,
               [listing |-> Resp(200, GraphQL("issues", "nodes", JArr(<<e>>)))])
      [] c.adapter = "unified linear" ->
           unified_LinearClient_list(c.client, c.scope,
               [listing |-> Resp(200, GraphQL("issues", "nodes", JArr(<<e>>)))])
      [] c.adapter = "trello" ->
           TrelloClient_list_cards(c.client, c.scope,
               [listing |-> Resp(200, JArr(<<e>>)), lists |-> c.net.lists])
      [] c.adapter = "jira" ->
           JiraClient_list_issues(c.client, c.scope,
               [listing |-> Resp(200, Obj1("issues", JArr(<<e>>)))])

\* C16: for the same provider entity the record create returns is identical,
\* field for field, to the record list returns for it, for every adapter,
\* Trello with its resolved list name included
C16_CreateEqualsList ==
    (call # None /\ Unwrap(call).op = "create" /\ Unwrap(call).out.res.ok
     /\ Unwrap(call).adapter \in {"github", "unified github", "linear",
                                  "unified linear", "trello", "jira"}) =>
        LET c == Unwrap(call)
            listed == ListOf(c, CreatedEntity(c)).res
        IN  (listed.ok /\ Len(Unwrap(listed.val)) = 1) =>
                Unwrap(listed.val)[1] = Unwrap(c.out.res.val)

\* the answer to the n-th request of an operation, and whether it has the
\* shape the operation reads
Answer(c, n) ==
    IF c.adapter = "trello" /\ c.op = "list" THEN (IF n = 1 THEN c.net.listing ELSE c.net.lists)
    ELSE IF c.adapter \in {"trello", "unified trello"}
         THEN (IF n = 1 THEN c.net.lists ELSE c.net.created)
    ELSE IF c.op = "list" THEN c.net.listing
    ELSE c.net.created

HasShape(c, n) ==
    LET r == Answer(c, n)
    IN  /\ r.kind = "json"
        /\ CASE c.adapter \in {"github", "unified github"} /\ c.op = "list" -> r.json.t = "array"
              [] c.adapter \in {"linear", "unified linear"} /\ c.op = "list" -> HasNodes(r.json)
              [] c.adapter = "jira" /\ c.op = "list" ->
                   r.json.t = "object" /\ "issues" \in DOMAIN r.json.o
                   /\ r.json.o["issues"].t = "array"
              [] c.adapter = "trello" /\ c.op = "list" -> r.json.t = "array"
              [] c.adapter \in {"trello", "unified trello"} /\ c.op = "create" /\ n = 1 ->
                   r.json.t = "array"
              [] OTHER -> TRUE

\* C17: no adapter operation swallows a failure: when a request it issued
\* during list or create fails (no response, or a response whose shape does
\* not match), a secondary lookup such as Trello's list fetch or a Jira
\* search answer without an issues array included, the operation returns an
\* error and not a successful, defaulted result
C17_NoSwallowedFailure ==
    (call # None /\ Unwrap(call).adapter # "unified jira") =>
        LET c == Unwrap(call)
        IN  (\E n \in 1..Len(c.out.reqs) : ~HasShape(c, n)) => ~c.out.res.ok

\* the records an operation returned
Records(c) ==
    IF ~c.out.res.ok THEN <<>>
    ELSE IF c.op = "list" THEN Unwrap(c.out.res.val)
    ELSE <<Unwrap(c.out.res.val)>>

\* the entities the provider returned to the operation, in order
Entities(c) ==
    IF c.op = "create" THEN <<CreatedEntity(c)>>
    ELSE IF c.adapter \in {"linear", "unified linear"}
         THEN c.net.listing.json.o["data"].o["issues"].o["nodes"].a
    ELSE IF c.adapter = "jira"
         THEN (IF HasShape(c, 1) THEN c.net.listing.json.o["issues"].a ELSE <<>>)
    ELSE IF c.adapter = "github" THEN NonPullRequests(c.net.listing.json.a)
    ELSE c.net.listing.json.a

\* C18: every record an adapter returns from list or create carries as raw
\* payload the exact JSON object the provider returned for that entity
C18_RawPayload ==
    (call # None /\ Unwrap(call).adapter # "unified jira") =>
        LET c == Unwrap(call)
        IN  \A i \in 1..Len(Records(c)) :
                /\ "raw_payload" \in DOMAIN Records(c)[i]
                /\ Records(c)[i].raw_payload = Entities(c)[i]

\* ------------------------------------------------------------------ properties of the commands

\* the ProviderId a tag of the dispatcher stands for
IdOfTag(tag) ==
    CASE tag = "github" -> "Github"
      [] tag = "linear" -> "Linear"
      [] tag = "trello" -> "Trello"
      [] tag = "jira" -> "Jira"

\* the command was run for one of the four provider tags
Dispatched == cmd # None /\ Unwrap(cmd).asked # None
              /\ Unwrap(Unwrap(cmd).asked) \in ProviderNames

\* C19: adapter selection is a total match over the four provider tags: for
\* each tag the dispatcher constructs the adapter of that provider, with the
\* resolved token; a client is constructed only right after its token
\* resolution succeeded, every request comes after the construction, and the
\* construction never fails: when the token resolves the client exists, and
\* when it does not the command returns the resolution error without a request
C19_AdapterSelection ==
    cmd # None =>
        LET d == Unwrap(cmd).did
        IN  /\ \A i \in 1..Len(d.events) :
                  /\ d.events[i].e = "construct" =>
                        /\ d.events[i].ok
                        /\ i > 1
                        /\ d.events[i - 1] = Ev("resolve", d.events[i].who, TRUE)
                  /\ d.events[i].e = "request" =>
                        \E k \in 1..(i - 1) : d.events[k] = Ev("construct", d.events[i].who, TRUE)
            /\ Dispatched =>
                  LET tag == Unwrap(Unwrap(cmd).asked)
                      t == ResolveToken(IdOfTag(tag))
                  IN  IF t.ok
                      THEN /\ Len(d.clients) = 1
                           /\ d.clients[1].kind = tag
                           /\ d.clients[1].client.token = Unwrap(t.val)
                           /\ d.clients[1].client.default = scopes[IdOfTag(tag)]
                           /\ d.events[1] = Ev("resolve", tag, TRUE)
                           /\ d.events[2] = Ev("construct", tag, TRUE)
                      ELSE /\ d.clients = <<>>
                           /\ d.events = <<Ev("resolve", tag, FALSE)>>
                           /\ d.res = t

\* new was dispatched to the Trello client, which fetched the lists and
\* posted the card
C19_Witness ==
    /\ Dispatched
    /\ Unwrap(cmd).op = "new"
    /\ Unwrap(Unwrap(cmd).asked) = "trello"
    /\ Len(Unwrap(cmd).did.clients) = 1
    /\ Len(Unwrap(cmd).did.events) = 4
    /\ Unwrap(cmd).did.res.ok

\* the configuration file: the stored tokens, default scopes, API key and
\* default provider
PersistedConfig == <<tokens, scopes, api_key, default_provider>>

\* C20: the persisted configuration is read-only for ls and new: a step in
\* which a command runs its token resolution and its adapter operation, or
\* returns, leaves the stored tokens and the default scopes as they were,
\* whatever the outcome
C20_ConfigReadOnly == [][cmd' # cmd => UNCHANGED PersistedConfig]_vars

\* ls ran to success on a configuration that holds a token and a repository
C20_Witness ==
    /\ cmd # None
    /\ Unwrap(cmd).op = "ls"
    /\ Unwrap(cmd).asked = Some("github")
    /\ tokens["Github"] # None
    /\ scopes["Github"] = Some(<<"o", "/", "r">>)
    /\ Unwrap(cmd).did.res.ok

\* ------------------------------------------------------------------ properties of the listener and the attempt

\* the requests whose extract statement, response and signal the listener
\* has completed
Extracted == IF lpc = "body" /\ lstep = 1 THEN Len(acc) - 1 ELSE Len(acc)

Answered == IF lpc = "body" /\ lstep <= 2 THEN Len(acc) - 1 ELSE Len(acc)

Signalled == IF lpc = "body" THEN Len(acc) - 1 ELSE Len(acc)

\* C21: the listener treats every request alike except for the code: each
\* request it has handled got the fixed page and caused exactly one
\* completion signal, sent after the response; the code send was made exactly
\* for the code-bearing callbacks (path /callback with a code parameter), so
\* nothing else is enqueued; and the signal of the first request, of any
\* kind, is enough for the caller's wait to return
C21_EveryRequestSignals ==
    /\ responded = Answered
    /\ sig = Signalled
    /\ sig <= responded
    /\ sends = CountBearing(acc, Extracted)
    /\ enq <= sends
    /\ (pc = "wait" /\ sig >= 1) =>
          /\ closeChan >= 1
          /\ recv_timeout(closeChan, SendersAlive, FALSE) = "Ok"
    /\ WaitReturnedTrue => waitSaw >= 1

\* the wait returned on the signal of a first request that was not a callback
C21_Witness ==
    /\ pc = "recv"
    /\ waitSaw = 1
    /\ acc = <<FALSE>>
    /\ sig = 1
    /\ responded = 1
    /\ enq = 0

\* C22: the port is assigned by the operating system up front, so the start
\* of the callback listener never fails with a port conflict, whatever other
\* processes bind between the choice of the port and the listener's bind
C22_NoPortConflict ==
    /\ ~(pc = "failed" /\ err = "Failed to start server")
    /\ pc = "server" => portState = "free"

\* C23: the listener is started before the authorization URL is displayed:
\* whenever the URL has been shown, the listener is bound and accepting
C23_ListenerBeforeUrl ==
    shown => (portState = "listener" /\ lpc \in {"incoming", "body"})

\* the attempt ended with the wait timing out
TimedOut == pc = "failed" /\ err = "Authorization timed out"

\* C25: the listener's lifetime is bounded by the attempt: once the first
\* request has been served or the timeout has fired, the worker has stopped
\* and the port is released, so no further request is served
C25_ListenerBounded ==
    /\ (sig >= 1 \/ TimedOut) => (lpc = "dead" /\ portState = "closed")
    /\ Len(acc) <= 1

\* the errors of an attempt that did not obtain a token
NoTokenErrors ==
    {"bind failed", "Failed to start server", "Authorization timed out",
     "Failed to receive code", "http error", "missing credentials"}

C24_StateVerified ==
    /\ reads = 0
    /\ posts = 0
    /\ token = None
    /\ disk = disk0
    /\ pc \notin {"exchange", "posting", "save", "done"}

\* a step the program takes without a further inbound request: a statement
\* of github_auth (the timeout firing and the token endpoint answering
\* included) or a statement of the listener on the request it holds
OwnStep ==
    \/ AuthCredentials
    \/ AuthGetPort
    \/ AuthShowUrl
    \/ AuthStartServer
    \/ AuthWait
    \/ AuthRecvCode
    \/ AuthExchangeSend
    \/ AuthExchangeReceive
    \/ AuthSave
    \/ ListenerExtract
    \/ ListenerRespond
    \/ ListenerSignal

\* C27: every attempt ends, whatever requests arrive (none, only
\* non-callback requests, callbacks without a code, callbacks with a code):
\* as long as the caller has not returned, the program can take a step of
\* its own, so with the timeout firing and the token endpoint answering it
\* never waits forever for a request that need not come
C27_AttemptEnds == pc \notin {"done", "failed"} => ENABLED OwnStep

\* a JSON body holds a value at data.issueCreate.issue
HasCreatedIssue(body) ==
    /\ body.t = "object" /\ "data" \in DOMAIN body.o
    /\ body.o["data"].t = "object" /\ "issueCreate" \in DOMAIN body.o["data"].o
    /\ body.o["data"].o["issueCreate"].t = "object"
    /\ "issue" \in DOMAIN body.o["data"].o["issueCreate"].o

\* C26: Linear create returns the created issue only when the body holds
\* data.issueCreate.issue, and otherwise fails with UnexpectedResponse
\* carrying the response body, whatever the HTTP status (200 included)
C26_LinearCreate ==
    (call # None /\ Unwrap(call).adapter \in {"linear", "unified linear"}
     /\ Unwrap(call).op = "create" /\ Unwrap(call).net.created.kind = "json") =>
        LET c == Unwrap(call)
            body == c.net.created.json
        IN  /\ ~HasCreatedIssue(body) =>
                  /\ ~c.out.res.ok
                  /\ Unwrap(c.out.res.err).kind = "UnexpectedResponse"
                  /\ Unwrap(c.out.res.err).detail = body
            /\ c.out.res.ok => HasCreatedIssue(body)

\* ------------------------------------------------------------------ properties of ls and of the default provider

\* the providers whose token an arm resolved or tried to resolve, in order
Visited(d) == SelectSeq(d.events, LAMBDA e : e.e = "resolve")

\* the arm sent a request to the provider `tag`
Requested(d, tag) == \E i \in 1..Len(d.events) : d.events[i] = Ev("request", tag, TRUE)

\* ls without a provider gets as far as listing the provider `tag`
Listable(tag) ==
    /\ ResolveToken(IdOfTag(tag)).ok
    /\ tag = "trello" => api_key # None

C30_DefaultNotValidated ==
    /\ \A text \in ConfigTexts :
          (cmd = None /\ changes < MaxChanges /\ default_provider # text) =>
              ENABLED (ConfigProvider /\ default_provider' = text)
    /\ (cmd # None /\ Unwrap(cmd).op = "new" /\ Unwrap(cmd).given = None) =>
          LET d == Unwrap(cmd).did
          IN  IF default_provider \in {"github", "linear", "trello", "jira"}
              THEN /\ d.events # <<>>
                   /\ d.events[1].e = "resolve"
                   /\ d.events[1].who = default_provider
              ELSE /\ d.events = <<>>
                   /\ d.clients = <<>>
                   /\ d.res = Err(E("Unknown provider", default_provider))

\* `config provider GitHub` was stored, and new without --provider failed
\* on it although a GitHub token is stored
C30_Witness ==
    /\ cmd # None
    /\ Unwrap(cmd).op = "new"
    /\ Unwrap(cmd).given = None
    /\ default_provider = "GitHub"
    /\ ResolveToken("Github").ok
    /\ Unwrap(cmd).did.events = <<>>
    /\ Unwrap(cmd).did.res = Err(E("Unknown provider", "GitHub"))

====
